---- MODULE Spec2Model ----
(***************************************************************************)
(* Model of the mock server's request pipeline: the route store and the   *)
(* specificity-ranked matcher (app/services/router.py), the validator     *)
(* (app/services/validator.py), the mock endpoint with its response       *)
(* sequence cursor, response generation and event recording               *)
(* (app/api/mock.py) and the admin operations on routes (app/api/admin.py).*)
(*                                                                         *)
(* Conventions.  A Python str is a sequence of symbols; the symbols "/",  *)
(* "{", "}" and "*" are the characters the code inspects, every other     *)
(* symbol stands for a run of ordinary characters.  A dict is a function   *)
(* whose DOMAIN is its key set; None and the empty dict are both the empty *)
(* function where the code only tests truthiness.  A JSON value is a       *)
(* tagged record [t, v]; a JSON string carries a sequence of symbols, a    *)
(* dict key is an atom.  An Optional field holds Nil for None and Some(x)  *)
(* for a value x.  The specificity score is kept doubled so that the 0.5  *)
(* weight of a method stays an integer.  One step of the model is the     *)
(* code a handler runs between two awaits: the server runs one event loop *)
(* (app/core/server.py, workers 1).                                        *)
(***************************************************************************)
EXTENDS Integers, Sequences, FiniteSets, TLC

(***************************************************************************)
(* Python str and list helpers                                             *)
(***************************************************************************)

\* str.count(ch)
RECURSIVE Count(_, _)
Count(s, ch) ==
    IF s = <<>> THEN 0
    ELSE (IF Head(s) = ch THEN 1 ELSE 0) + Count(Tail(s), ch)

\* str.lstrip(ch)
RECURSIVE LStrip(_, _)
LStrip(s, ch) ==
    IF s # <<>> /\ Head(s) = ch THEN LStrip(Tail(s), ch) ELSE s

\* str.rstrip(ch)
RECURSIVE RStrip(_, _)
RStrip(s, ch) ==
    IF s # <<>> /\ s[Len(s)] = ch
    THEN RStrip(SubSeq(s, 1, Len(s) - 1), ch)
    ELSE s

\* str.strip(ch)
Strip(s, ch) == RStrip(LStrip(s, ch), ch)

\* str.split(sep): the list of the parts between the separators, empty
\* parts included ("".split("/") is [""])
RECURSIVE SplitAcc(_, _, _)
SplitAcc(s, sep, cur) ==
    IF s = <<>> THEN <<cur>>
    ELSE IF Head(s) = sep
         THEN <<cur>> \o SplitAcc(Tail(s), sep, <<>>)
         ELSE SplitAcc(Tail(s), sep, Append(cur, Head(s)))

Split(s, sep) == SplitAcc(s, sep, <<>>)

\* str.startswith(prefix)
StartsWith(s, prefix) ==
    /\ Len(s) >= Len(prefix)
    /\ SubSeq(s, 1, Len(prefix)) = prefix

\* x in list
InList(x, l) == \E i \in 1..Len(l) : l[i] = x

\* list.index(x): position of the first occurrence, 0-based
ListIndex(l, x) == (CHOOSE i \in 1..Len(l) :
                        l[i] = x /\ \A j \in 1..(i - 1) : l[j] # x) - 1

Min(a, b) == IF a <= b THEN a ELSE b

\* a < b for two Python str given as sequences of code points
RECURSIVE StrLess(_, _)
StrLess(a, b) ==
    IF a = <<>> THEN b # <<>>
    ELSE IF b = <<>> THEN FALSE
    ELSE IF Head(a) = Head(b) THEN StrLess(Tail(a), Tail(b))
    ELSE Head(a) < Head(b)

(***************************************************************************)
(* JSON values: request bodies, body templates                             *)
(***************************************************************************)

JNull    == [t |-> "null", v |-> 0]
JBool(b) == [t |-> "bool", v |-> b]
JNum(n)  == [t |-> "num", v |-> n]
JStr(s)  == [t |-> "str", v |-> s]
JArr(q)  == [t |-> "arr", v |-> q]
JObj(f)  == [t |-> "obj", v |-> f]

EmptyDict == [k \in {} |-> JNull]

\* dict literal helpers
D1(k, x) == [a \in {k} |-> x]
D2(k1, x1, k2, x2) == [a \in {k1, k2} |-> IF a = k1 THEN x1 ELSE x2]

\* Python truthiness (bool(x)) of a JSON value
Truthy(x) ==
    CASE x.t = "null" -> FALSE
      [] x.t = "bool" -> x.v
      [] x.t = "num"  -> x.v # 0
      [] x.t = "str"  -> x.v # <<>>
      [] x.t = "arr"  -> x.v # <<>>
      [] x.t = "obj"  -> DOMAIN x.v # {}

\* isinstance(x, dict)
IsDict(x) == x.t = "obj"

\* Python == on two values of which the second is a scalar: values of the
\* same type compare by value, bool and number compare numerically
\* (True == 1), anything else is unequal
PyEq(a, b) ==
    LET num(x) == IF x.t = "bool" THEN (IF x.v THEN 1 ELSE 0) ELSE x.v
    IN  IF a.t = b.t THEN a.v = b.v
        ELSE IF a.t \in {"bool", "num"} /\ b.t \in {"bool", "num"}
             THEN num(a) = num(b)
             ELSE FALSE

(***************************************************************************)
(* Router (app/services/router.py)                                         *)
(***************************************************************************)

\* Optional[...] result None
None == [ok |-> FALSE]

\* Router._route_specificity, doubled: 2 * score
route_specificity(match_rule) ==
    2 * Len(Split(match_rule.path, "/"))
    - 4 * Count(match_rule.path, "{")
    - 6 * Count(match_rule.path, "*")
    - Len(match_rule.methods)
    + (IF DOMAIN match_rule.headers # {}
       THEN 4 * Cardinality(DOMAIN match_rule.headers) ELSE 0)
    + (IF DOMAIN match_rule.query_params # {}
       THEN 4 * Cardinality(DOMAIN match_rule.query_params) ELSE 0)
    + (IF DOMAIN match_rule.body # {} THEN 10 ELSE 0)

\* re.compile(route_path).match(request_path) for a pattern without
\* metacharacters and without groups: a match at the start of the request
\* path, groupdict() is empty
RegexMatch(request_path, route_path) ==
    IF StartsWith(request_path, route_path)
    THEN [ok |-> TRUE, params |-> <<>>]
    ELSE None

\* the loop of Router._match_path over zip(request_parts, route_parts),
\* from pair i on, with the parameters captured so far
RECURSIVE MatchParts(_, _, _, _)
MatchParts(request_parts, route_parts, i, path_params) ==
    IF i > Min(Len(request_parts), Len(route_parts))
    THEN [ok |-> TRUE, params |-> path_params]
    ELSE LET req_part == request_parts[i]
             route_part == route_parts[i]
         IN  IF route_part = <<"*">>
             THEN [ok |-> TRUE, params |-> path_params]
             ELSE IF /\ route_part # <<>>
                     /\ Head(route_part) = "{"
                     /\ route_part[Len(route_part)] = "}"
             THEN LET param_name == SubSeq(route_part, 2, Len(route_part) - 1)
                  IN  MatchParts(request_parts, route_parts, i + 1,
                          [k \in DOMAIN path_params \cup {param_name} |->
                              IF k = param_name THEN req_part
                              ELSE path_params[k]])
             ELSE IF req_part # route_part
             THEN None
             ELSE MatchParts(request_parts, route_parts, i + 1, path_params)

\* a path match that leaves the comparison of the lengths out
MatchPathAnyLength(request_path, route_path, use_regex) ==
    MatchParts(Split(Strip(request_path, "/"), "/"),
               Split(Strip(route_path, "/"), "/"), 1, <<>>)

\* a path match that wants a request segment at the wildcard's position
MatchPathUnderWildcard(request_path, route_path, use_regex) ==
    LET request_parts == Split(Strip(request_path, "/"), "/")
        route_parts == Split(Strip(route_path, "/"), "/")
        looped == MatchParts(request_parts, route_parts, 1, <<>>)
    IN  IF Len(request_parts) # Len(route_parts)
           /\ ~InList(<<"*">>, route_parts)
        THEN None
        ELSE IF ~looped.ok THEN None
        ELSE IF /\ InList(<<"*">>, route_parts)
                /\ Len(request_parts) <= ListIndex(route_parts, <<"*">>)
        THEN None
        ELSE looped

\* Router._match_path
match_path(request_path, route_path, use_regex) ==
    IF use_regex THEN RegexMatch(request_path, route_path)
    ELSE
    LET request_parts == Split(Strip(request_path, "/"), "/")
        route_parts == Split(Strip(route_path, "/"), "/")
        looped == MatchParts(request_parts, route_parts, 1, <<>>)
    IN  IF Len(request_parts) # Len(route_parts)
           /\ ~InList(<<"*">>, route_parts)
        THEN None
        ELSE IF ~looped.ok THEN None
        ELSE IF /\ InList(<<"*">>, route_parts)
                /\ Len(request_parts) < ListIndex(route_parts, <<"*">>)
        THEN None
        ELSE looped

\* one constraint of a headers / query_params rule: a str, or a list of str
One(s)  == [isList |-> FALSE, val |-> s, vals |-> <<>>]
AnyOf(l) == [isList |-> TRUE, val |-> <<>>, vals |-> l]

\* the body shared by Router._match_headers and Router._match_query_params
MatchConstraints(actual, expected) ==
    IF DOMAIN expected = {} THEN TRUE
    ELSE \A key \in DOMAIN expected :
            /\ key \in DOMAIN actual
            /\ IF expected[key].isList
               THEN InList(actual[key], expected[key].vals)
               ELSE expected[key].val = actual[key]

\* Router._match_headers
match_headers(request_headers, route_headers) ==
    MatchConstraints(request_headers, route_headers)

\* Router._match_query_params
match_query_params(request_params, route_params) ==
    MatchConstraints(request_params, route_params)

\* Router._deep_match
RECURSIVE deep_match(_, _)
deep_match(actual, expected) ==
    IF expected.t = "obj"
    THEN /\ actual.t = "obj"
         /\ \A key \in DOMAIN expected.v :
               /\ key \in DOMAIN actual.v
               /\ deep_match(actual.v[key], expected.v[key])
    ELSE IF expected.t = "arr"
    THEN /\ actual.t = "arr"
         /\ Len(expected.v) = Len(actual.v)
         /\ \A i \in 1..Len(expected.v) : deep_match(actual.v[i], expected.v[i])
    ELSE PyEq(actual, expected)

\* Router._match_body
match_body(request_body, route_body) ==
    IF DOMAIN route_body = {} THEN TRUE
    ELSE IF ~Truthy(request_body) THEN FALSE
    ELSE IF ~IsDict(request_body) THEN FALSE
    ELSE deep_match(request_body, JObj(route_body))

\* the five checks of one iteration of the loop of Router.match_route
RoutePasses(route, req) ==
    /\ InList(req.method, route.match_rule.methods)
    /\ match_path(req.path, route.match_rule.path, route.match_rule.use_regex).ok
    /\ match_headers(req.headers, route.match_rule.headers)
    /\ match_query_params(req.query_params, route.match_rule.query_params)
    /\ match_body(req.body, route.match_rule.body)

\* the tie on specificity broken towards the larger id
SortsAfterById(a, b) == StrLess(b, a)

\* the sort key (-specificity, id) of Router.match_route: a sorts before b
SortsBeforeById(a, b) == StrLess(a, b)

SortsBefore(rs, a, b) ==
    LET sa == route_specificity(rs[a].match_rule)
        sb == route_specificity(rs[b].match_rule)
    IN  \/ sa > sb
        \/ sa = sb /\ SortsBeforeById(a, b)

\* sorted(ids, key=...) of Router.match_route
RECURSIVE SortRoutes(_, _)
SortRoutes(rs, ids) ==
    IF ids = {} THEN <<>>
    ELSE LET first == CHOOSE a \in ids :
                          \A b \in ids \ {a} : SortsBefore(rs, a, b)
         IN  <<first>> \o SortRoutes(rs, ids \ {first})

\* match_route without its enabled filter
NoEnabledFilter(rs) == DOMAIN rs

\* the enabled filter of Router.match_route
EnabledFilter(rs) == {id \in DOMAIN rs : rs[id].enabled}

\* the loop of Router.match_route over sorted_routes from position i on
RECURSIVE FirstPassing(_, _, _, _)
FirstPassing(rs, sorted_routes, i, req) ==
    IF i > Len(sorted_routes) THEN None
    ELSE LET route == rs[sorted_routes[i]]
         IN  IF RoutePasses(route, req)
             THEN [ok |-> TRUE, id |-> sorted_routes[i],
                   params |-> match_path(req.path, route.match_rule.path,
                                         route.match_rule.use_regex).params]
             ELSE FirstPassing(rs, sorted_routes, i + 1, req)

\* Router.match_route on the store rs (id -> Route)
match_route(rs, req) ==
    FirstPassing(rs, SortRoutes(rs, EnabledFilter(rs)), 1, req)

(***************************************************************************)
(* Validator (app/services/validator.py)                                   *)
(***************************************************************************)

\* an Optional field: None is Nil, a value x is Some(x)
Nil == <<>>
Some(x) == <<x>>
Get(opt) == opt[1]

\* isinstance(x, (int, float)); bool is a subclass of int
IsNumber(x) == x.t \in {"num", "bool"}

NumVal(x) == IF x.t = "bool" THEN (IF x.v THEN 1 ELSE 0) ELSE x.v

\* `field in body` for the bodies request.json() can give: a key of an
\* object, an element of an array, a substring of a string; None never
\* reaches the test
FieldIn(field, body) ==
    CASE body.t = "obj" -> field \in DOMAIN body.v
      [] body.t = "arr" -> \E i \in 1..Len(body.v) :
                              body.v[i].t = "str" /\ body.v[i].v = <<field>>
      [] body.t = "str" -> \E i \in 1..Len(body.v) : body.v[i] = field
      [] OTHER -> FALSE

\* `field in body` raises for a number or a boolean (argument of type
\* 'int' is not iterable)
InRaises(body) == body.t \in {"num", "bool"}

\* body[field] raises for a body that is no dict (list indices must be
\* integers)
SubscriptRaises(body) == body.t # "obj"

\* security.verify_token: the tokens that decode under SECRET_KEY with a
\* valid signature and an expiry in the future
ValidTokens == {<<"tok_valid">>}

verify_token(token) == token \in ValidTokens

\* Validator._validate_type
validate_type(value, expected_type) ==
    CASE expected_type = "string"  -> value.t = "str"
      [] expected_type = "number"  -> IsNumber(value)
      [] expected_type = "integer" -> IsNumber(value)
      [] expected_type = "boolean" -> value.t = "bool"
      [] expected_type = "array"   -> value.t = "arr"
      [] expected_type = "object"  -> value.t = "obj"
      [] expected_type = "null"    -> value.t = "null"
      [] OTHER -> TRUE

\* value in range_values (list membership by ==)
InValues(value, range_values) ==
    \E i \in 1..Len(range_values) :
        IF range_values[i].t \in {"obj", "arr"}
        THEN value = range_values[i]
        ELSE PyEq(value, range_values[i])

\* a range check that knows enumerated values only
RangeListOnly(value, range_values) ==
    range_values = <<>> \/ InValues(value, range_values)

\* Validator._validate_range
validate_range(value, range_values) ==
    IF range_values = <<>> THEN TRUE
    ELSE IF /\ Len(range_values) = 2
            /\ \A i \in 1..2 : IsNumber(range_values[i])
            /\ IsNumber(value)
    THEN /\ NumVal(range_values[1]) <= NumVal(value)
         /\ NumVal(value) <= NumVal(range_values[2])
    ELSE IF InValues(value, range_values) THEN TRUE
    ELSE IF /\ Len(range_values) = 1
            /\ IsNumber(range_values[1])
            /\ IsNumber(value)
    THEN NumVal(value) >= NumVal(range_values[1])
    ELSE FALSE

Valid == [ok |-> TRUE, raised |-> FALSE, msg |-> "", fields |-> <<>>]
Invalid(m, f) == [ok |-> FALSE, raised |-> FALSE, msg |-> m, fields |-> f]
Raised == [ok |-> FALSE, raised |-> TRUE, msg |-> "", fields |-> <<>>]

\* a list comprehension that keeps every field
AllRequired(l, body) == l

\* [field for field in l if field not in body]
RECURSIVE MissingFields(_, _)
MissingFields(l, body) ==
    IF l = <<>> THEN <<>>
    ELSE (IF FieldIn(Head(l), body) THEN <<>> ELSE <<Head(l)>>)
         \o MissingFields(Tail(l), body)

\* the required_fields check of Validator.validate_request (lines 21-28)
CheckRequired(validator, body) ==
    IF validator.required_fields = <<>> THEN Valid
    ELSE IF ~Truthy(body)
    THEN Invalid("body_empty_missing_required", validator.required_fields)
    ELSE IF InRaises(body) THEN Raised
    ELSE IF MissingFields(validator.required_fields, body) # <<>>
    THEN Invalid("missing_required",
                 MissingFields(validator.required_fields, body))
    ELSE Valid

\* the field_types check (lines 30-35); the dict is walked in key order,
\* the first failing field is reported
CheckTypes(validator, body) ==
    IF DOMAIN validator.field_types = {} \/ ~Truthy(body) THEN Valid
    ELSE IF InRaises(body) THEN Raised
    ELSE LET present == {f \in DOMAIN validator.field_types : FieldIn(f, body)}
         IN  IF present # {} /\ SubscriptRaises(body) THEN Raised
             ELSE LET bad == {f \in present :
                       ~validate_type(body.v[f], validator.field_types[f])}
                  IN  IF bad = {} THEN Valid
                      ELSE Invalid("type_error", <<CHOOSE f \in bad : TRUE>>)

\* the field_ranges check (lines 37-42)
CheckRanges(validator, body) ==
    IF DOMAIN validator.field_ranges = {} \/ ~Truthy(body) THEN Valid
    ELSE IF InRaises(body) THEN Raised
    ELSE LET present == {f \in DOMAIN validator.field_ranges : FieldIn(f, body)}
         IN  IF present # {} /\ SubscriptRaises(body) THEN Raised
             ELSE LET bad == {f \in present :
                       ~validate_range(body.v[f], validator.field_ranges[f])}
                  IN  IF bad = {} THEN Valid
                      ELSE Invalid("out_of_range", <<CHOOSE f \in bad : TRUE>>)

\* the validate_jwt check (lines 44-58)
CheckJwt(validator, headers) ==
    IF ~validator.validate_jwt THEN Valid
    ELSE IF DOMAIN headers = {} THEN Invalid("no_headers", <<>>)
    ELSE IF "Authorization" \notin DOMAIN headers
            \/ headers["Authorization"] = <<>>
    THEN Invalid("no_authorization", <<>>)
    ELSE IF ~StartsWith(headers["Authorization"], <<"Bearer", " ">>)
    THEN Invalid("bad_authorization_format", <<>>)
    ELSE IF ~verify_token(Split(headers["Authorization"], " ")[2])
    THEN Invalid("invalid_jwt", <<>>)
    ELSE Valid

\* Validator.validate_request
validate_request(validator, body, headers) ==
    IF ~CheckRequired(validator, body).ok THEN CheckRequired(validator, body)
    ELSE IF ~CheckTypes(validator, body).ok THEN CheckTypes(validator, body)
    ELSE IF ~CheckRanges(validator, body).ok THEN CheckRanges(validator, body)
    ELSE CheckJwt(validator, headers)

(***************************************************************************)
(* Bounds of the model                                                     *)
(***************************************************************************)

\* requests the mock endpoint receives in one behaviour
MaxRequests == 3

\* admin operations in one behaviour
MaxAdminOps == 2

\* raises of the persistence collaborator in one behaviour
MaxFaults == 1

\* resolution of random.random(): the draws are 0/ProbScale ..
\* (ProbScale-1)/ProbScale, a probability q is kept as q * ProbScale
ProbScale == 2

\* the in-memory histories keep the most recent 1000 records
HistoryLimit == 1000

\* concurrent request-handling tasks of the event loop
MaxTasks == 2

Procs == 1..MaxTasks

(***************************************************************************)
(* Routes, responses, requests the model draws from                        *)
(***************************************************************************)

\* a RouteResponse; error_probability 1.0 is ProbScale
Descriptor(status, delay, sim, etype, prob, content) ==
    [status_code |-> status, delay |-> delay, delay_range |-> Nil,
     simulate_error |-> sim, error_type |-> etype,
     error_probability |-> prob, content |-> content]

MsgContent(s) == JObj(D1("message", JStr(<<s>>)))

DescDefault == Descriptor(200, 0, FALSE, "", ProbScale, MsgContent("default"))
DescFirst   == Descriptor(200, 1, FALSE, "", ProbScale, MsgContent("first"))
DescSecond  == Descriptor(201, 0, FALSE, "", ProbScale, MsgContent("second"))
DescThird   == Descriptor(404, 0, TRUE, "server_error", ProbScale, MsgContent("third"))
DescTimeout == Descriptor(200, 0, TRUE, "timeout", ProbScale, JNum(1))
DescInvalid == Descriptor(401, 0, FALSE, "", ProbScale, MsgContent("invalid"))

\* a RouteValidator
ValidatorOf(req_fields, jwt, error_response) ==
    [required_fields |-> req_fields, field_types |-> EmptyDict,
     field_ranges |-> EmptyDict, validate_jwt |-> jwt,
     validate_oauth |-> FALSE, oauth_token |-> <<>>,
     error_response |-> error_response]

\* a RouteMatchRule
Rule(path, methods, headers, query, body, use_regex) ==
    [path |-> path, methods |-> methods, headers |-> headers,
     query_params |-> query, body |-> body, use_regex |-> use_regex]

PathSeq  == <<"/", "api", "/", "seq">>
PathUser == <<"/", "api", "/", "users", "/", "{", "id", "}">>
PathAny  == <<"/", "api", "/", "*">>

\* the RouteCreate bodies the admin API is sent
RouteCreates == {
    [match_rule |-> Rule(PathSeq, <<"GET">>, EmptyDict, EmptyDict, EmptyDict, FALSE),
     response |-> DescDefault,
     response_sequences |-> <<DescFirst, DescSecond>>,
     enable_sequence |-> TRUE, validator |-> Nil],
    [match_rule |-> Rule(PathUser, <<"POST">>, EmptyDict, EmptyDict, EmptyDict, FALSE),
     response |-> DescDefault,
     response_sequences |-> <<DescSecond, DescThird>>,
     enable_sequence |-> TRUE,
     validator |-> Some(ValidatorOf(<<"name">>, FALSE, Some(DescInvalid)))],
    [match_rule |-> Rule(PathAny, <<"GET", "POST">>, EmptyDict, EmptyDict, EmptyDict, FALSE),
     response |-> DescTimeout,
     response_sequences |-> <<DescSecond>>,
     enable_sequence |-> FALSE,
     validator |-> Some(ValidatorOf(<<"name">>, FALSE, Nil))] }

\* the RouteUpdate bodies the admin API is sent; a field left out is Nil
RouteUpdates == {
    [enabled |-> Nil, response_sequences |-> Some(<<DescThird>>),
     enable_sequence |-> Nil],
    [enabled |-> Nil, response_sequences |-> Some(<<>>),
     enable_sequence |-> Some(TRUE)],
    [enabled |-> Some(FALSE), response_sequences |-> Nil,
     enable_sequence |-> Nil] }

\* the route ids uuid4 hands out, as code points
RouteIds == {<<1>>, <<1, 0>>}

\* matched_route_id None
NoId == <<>>

\* header names as the client sends them, and as Starlette stores them
Lower(name) == IF name = "Authorization" THEN "authorization" ELSE name

\* dict(request.headers): the keys are lower-cased
RequestHeaders(sent) ==
    [k \in {Lower(n) : n \in DOMAIN sent} |->
        sent[CHOOSE n \in DOMAIN sent : Lower(n) = k]]

NoHeaders == [k \in {} |-> <<>>]

\* an inbound request: method, the path below /api/, headers as sent,
\* query parameters, JSON body (JNull when there is none)
Inbound(method, path, headers, body) ==
    [method |-> method, path |-> path, headers |-> headers,
     query_params |-> NoHeaders, body |-> body]

Requests == {
    Inbound("GET", <<"seq">>, NoHeaders, JNull),
    Inbound("POST", <<"users", "/", "42">>, NoHeaders,
            JObj(D1("name", JStr(<<"Ann">>)))),
    Inbound("POST", <<"users", "/", "42">>, NoHeaders, JNull) }

(***************************************************************************)
(* State                                                                   *)
(***************************************************************************)

VARIABLES
    routes,            \* mock_router.routes: id -> Route
    db_routes,         \* the persisted routes: id -> Route
    request_history,   \* mock.request_history
    response_history,  \* mock.response_history
    db_requests,       \* table requests of the database
    db_responses,      \* table responses of the database
    proxy_enable,      \* config.proxy.enable and config.proxy.target_url
    h,                 \* per task: the mock_handler invocation it is
                       \* suspended in
    last,              \* the invocation that ended last
    n_requests,        \* invocations of mock_handler so far
    n_admin,           \* admin operations so far
    n_faults,          \* raises of save_request / save_response so far
    served,            \* per route id: the sequence indices dispatched
                       \* since the last admin operation on the route
                       \* (-1: the default response)
    base,              \* per route id: the cursor when served was cleared
    probe,             \* the store and request match_route is applied to
    matched            \* what match_route returned for probe

vars == <<routes, db_routes, request_history, response_history, db_requests,
          db_responses, proxy_enable, h, last, n_requests, n_admin,
          n_faults, served, base, probe, matched>>

\* what an invocation saw of the store when it matched: the enabled
\* routes that pass the five checks for its request and, of the matched
\* route, the validator's verdict and error response, the default
\* response, the sequence settings, and the cursor in the store and as
\* persisted, before and after
NoObs == [passing |-> {}, has_validator |-> FALSE, valid |-> TRUE,
          msg |-> "", error_response |-> Nil, default_response |-> Nil,
          enable_sequence |-> FALSE, n_sequences |-> 0,
          cursor_before |-> 0, cursor_after |-> 0,
          db_cursor_before |-> 0, db_cursor_after |-> 0]

\* a task that runs no invocation
Idle == [pc |-> "idle", id |-> 0, req |-> Nil, route_id |-> NoId,
         used |-> "", idx |-> -1, desc |-> Nil, response |-> Nil,
         sent |-> Nil, obs |-> NoObs]

\* a response: status code, what made its body, the error text of a
\* canned body
Resp(status, src, error) ==
    [status_code |-> status, src |-> src, error |-> error]

\* what the server answers when the handler raises
Unhandled == Resp(500, "unhandled", "")

\* dict[key] = value
Put(d, key, value) ==
    [k \in DOMAIN d \cup {key} |-> IF k = key THEN value ELSE d[k]]

\* del dict[key]
Del(d, key) == [k \in DOMAIN d \ {key} |-> d[k]]

EmptyStore == [k \in {} |-> 0]

\* the persistence collaborator's save_route: the stored copy of the
\* route is replaced
save_route(db, route_id, route) == Put(db, route_id, route)

\* the persistence collaborator's delete_route
db_delete_route(db, route_id) == Del(db, route_id)

(***************************************************************************)
(* mock_handler (app/api/mock.py)                                          *)
(***************************************************************************)

\* lines 55-70: the request as the handler sees it
Incoming(q) ==
    [method |-> q.method, path |-> <<"/", "api", "/">> \o q.path,
     headers |-> RequestHeaders(q.headers),
     query_params |-> q.query_params, body |-> q.body]

\* line 126 without the test of enable_sequence
SequenceWheneverConfigured(route) ==
    Len(route.response_sequences) > 0

\* line 126: the sequence is consulted
SequenceApplies(route) ==
    /\ route.enable_sequence
    /\ route.response_sequences # <<>>
    /\ Len(route.response_sequences) > 0

\* line 133 without the modulo: the cursor advances by one and does not wrap
AdvanceWithoutWrap(current_index, n) == current_index + 1

\* line 133 without the increment: the cursor is written back as it was read
AdvanceLost(current_index, n) == current_index

\* line 133: the cursor after index current_index of n responses was used
AdvanceCursor(current_index, n) == (current_index + 1) % n

\* line 130: the guard on the cursor
CursorInRange(route) ==
    route.current_sequence_index < Len(route.response_sequences)

\* lines 125-133: the response to use, the index used (-1: the default
\* response) and the cursor afterwards
SelectResponse(route) ==
    IF SequenceApplies(route) /\ CursorInRange(route)
    THEN [desc |-> route.response_sequences[route.current_sequence_index + 1],
          idx |-> route.current_sequence_index,
          cursor |-> AdvanceCursor(route.current_sequence_index,
                                   Len(route.response_sequences))]
    ELSE [desc |-> route.response, idx |-> -1,
          cursor |-> route.current_sequence_index]

\* a string leaf somewhere in a response content
RECURSIVE HasStringLeaf(_)
HasStringLeaf(x) ==
    CASE x.t = "str" -> TRUE
      [] x.t = "obj" -> \E k \in DOMAIN x.v : HasStringLeaf(x.v[k])
      [] x.t = "arr" -> \E i \in 1..Len(x.v) : HasStringLeaf(x.v[i])
      [] OTHER -> FALSE

\* templater.render_response raises: every string leaf is rendered by
\* _render_string, which calls context['body'].items(), and context['body']
\* is `body or {}` (mock.py line 97): a truthy body that is no dict has no
\* items()
RenderRaises(content, body) ==
    HasStringLeaf(content) /\ Truthy(body) /\ ~IsDict(body)

\* generate_response suspends in asyncio.sleep (lines 190-197)
Delays(desc) == desc.delay > 0 \/ desc.delay_range # Nil

\* lines 200-202 with the comparison turned round
ErrorFiresAbove(desc, draw) ==
    desc.simulate_error /\ draw >= desc.error_probability

\* lines 200-202: the simulated error fires for the draw
ErrorFires(desc, draw) ==
    desc.simulate_error /\ draw <= desc.error_probability

\* the invocation has its response and goes on to record it
Respond(hr, response) ==
    [hr EXCEPT !.pc = "respond", !.response = Some(response)]

\* the invocation raised: the server answers 500
Fail(hr) == [hr EXCEPT !.pc = "failed", !.sent = Some(Unhandled)]

\* generate_response from line 199 on, up to its return or to the sleep
\* of the simulated timeout
PostDelay(hr, draw) ==
    LET desc == Get(hr.desc)
    IN  IF ErrorFires(desc, draw) /\ desc.error_type = "timeout"
        THEN [hr EXCEPT !.pc = "timeout_sleep"]
        ELSE IF ErrorFires(desc, draw) /\ desc.error_type = "network_error"
        THEN Respond(hr, Resp(503, "canned", "Service Unavailable"))
        ELSE IF ErrorFires(desc, draw) /\ desc.error_type = "server_error"
        THEN Respond(hr, Resp(500, "canned", "Internal Server Error"))
        ELSE IF RenderRaises(desc.content, Get(hr.req).body)
        THEN Fail(hr)
        ELSE Respond(hr, Resp(desc.status_code, "content", ""))

\* lines 205-212: after the sleep of the simulated timeout
PostTimeout(hr) == Respond(hr, Resp(408, "canned", "Request Timeout"))

\* generate_response(desc, context) up to its first suspension
Generate(hr, desc, draw) ==
    LET hd == [hr EXCEPT !.desc = Some(desc)]
    IN  IF Delays(desc) THEN [hd EXCEPT !.pc = "delay"]
        ELSE PostDelay(hd, draw)

\* lines 101-122 without the test of line 108: the generic 400 whatever
\* the validator configures
RejectedGeneric(hr, validator, verdict, draw) ==
    Respond([hr EXCEPT !.used = "generic400"],
            Resp(400, "canned", verdict.msg))

\* lines 101-122: a matched request whose validation failed
Rejected(hr, validator, verdict, draw) ==
    IF validator.error_response # Nil
    THEN Generate([hr EXCEPT !.used = "error_response"],
                  Get(validator.error_response), draw)
    ELSE Respond([hr EXCEPT !.used = "generic400"],
                 Resp(400, "canned", verdict.msg))

\* lines 102-103: the verdict of the route's validator
Verdict(route, in) ==
    IF route.validator = Nil THEN Valid
    ELSE validate_request(Get(route.validator), in.body, in.headers)

\* lines 151-181 without the test of config.proxy.enable
UnmatchedForwarded(hr, proxy) ==
    [hr EXCEPT !.pc = "proxying", !.used = "proxy"]

\* lines 151-181: no route matched
Unmatched(hr, proxy) ==
    IF proxy
    THEN [hr EXCEPT !.pc = "proxying", !.used = "proxy"]
    ELSE Respond([hr EXCEPT !.used = "notfound"],
                 Resp(404, "canned", "No matching route found"))

\* mock_handler from its start to its first suspension after the match
\* (no await lies between lines 91 and 141): the invocation, the store,
\* and the route whose cursor was advanced and saved (NoId: none)
Handle(rs, q, id, draw, proxy) ==
    LET in == Incoming(q)
        m == match_route(rs, in)
        hr == [Idle EXCEPT !.id = id, !.req = Some(in)]
    IN  IF ~m.ok
        THEN [hr |-> Unmatched(hr, proxy), rs |-> rs, advanced |-> NoId,
              idx |-> -1, selected |-> FALSE]
        ELSE
        LET route == rs[m.id]
            hm == [hr EXCEPT !.route_id = m.id]
            verdict == Verdict(route, in)
            sel == SelectResponse(route)
        IN  IF verdict.raised
            THEN [hr |-> Fail(hm), rs |-> rs, advanced |-> NoId,
                  idx |-> -1, selected |-> FALSE]
            ELSE IF ~verdict.ok
            THEN [hr |-> Rejected(hm, Get(route.validator), verdict, draw),
                  rs |-> rs, advanced |-> NoId, idx |-> -1,
                  selected |-> FALSE]
            ELSE [hr |-> Generate([hm EXCEPT
                                     !.used = IF sel.idx >= 0 THEN "sequence"
                                              ELSE "default",
                                     !.idx = sel.idx],
                                  sel.desc, draw),
                  rs |-> IF sel.idx >= 0
                         THEN [rs EXCEPT ![m.id].current_sequence_index =
                                   sel.cursor]
                         ELSE rs,
                  advanced |-> IF sel.idx >= 0 THEN m.id ELSE NoId,
                  idx |-> sel.idx, selected |-> TRUE]

\* the observation of an invocation for request q that took the store
\* from rs to rs_after and the persisted routes from db to db_after
Observed(rs, rs_after, db, db_after, route_id, q) ==
    LET passing == {id \in DOMAIN rs :
                       rs[id].enabled /\ RoutePasses(rs[id], Incoming(q))}
    IN  IF route_id = NoId THEN [NoObs EXCEPT !.passing = passing]
        ELSE [passing |-> passing,
              has_validator |-> rs[route_id].validator # Nil,
              valid |-> Verdict(rs[route_id], Incoming(q)).ok,
              msg |-> Verdict(rs[route_id], Incoming(q)).msg,
              error_response |->
                  IF rs[route_id].validator = Nil THEN Nil
                  ELSE Get(rs[route_id].validator).error_response,
              default_response |-> Some(rs[route_id].response),
              enable_sequence |-> rs[route_id].enable_sequence,
              n_sequences |-> Len(rs[route_id].response_sequences),
              cursor_before |-> rs[route_id].current_sequence_index,
              cursor_after |-> rs_after[route_id].current_sequence_index,
              db_cursor_before |-> db[route_id].current_sequence_index,
              db_cursor_after |-> db_after[route_id].current_sequence_index]

(***************************************************************************)
(* record_request_and_response (app/api/mock.py)                           *)
(***************************************************************************)

\* the status code the handler passes to record_request_and_response:
\* the literal 400 on the validation path (line 118), else the status of
\* the response
RecordedStatus(hr) ==
    IF hr.used \in {"error_response", "generic400"} THEN 400
    ELSE Get(hr.response).status_code

\* lines 261-273
RequestRecord(hr) ==
    [id |-> hr.id, matched_route_id |-> hr.route_id,
     response_status |-> RecordedStatus(hr)]

\* lines 301-311
ResponseRecord(hr) ==
    [request_id |-> hr.id, status_code |-> RecordedStatus(hr)]

\* lines 280-281 and 318-319: the oldest record goes when the list is
\* over the limit
Trim(history) ==
    IF Len(history) > HistoryLimit THEN Tail(history) ELSE history

\* what the persistence collaborator does to one recording: both saves
\* succeed, save_request raises, save_response raises
PersistOutcomes == {"ok", "save_request_raises", "save_response_raises"}

\* record_request_and_response without lines 301-319: the request event
\* alone is recorded
RecordedRequestOnly(hr, pf) ==
    [request_history |-> Trim(Append(request_history, RequestRecord(hr))),
     db_requests |-> Append(db_requests, RequestRecord(hr)),
     response_history |-> response_history,
     db_responses |-> db_responses,
     hr |-> [hr EXCEPT !.pc = "done", !.sent = hr.response]]

\* record_request_and_response and the return of the handler (a raise of
\* save_request or save_response leaves the function where it is raised
\* and ends the handler)
Recorded(hr, pf) ==
    [request_history |->
         IF pf = "save_request_raises"
         THEN Append(request_history, RequestRecord(hr))
         ELSE Trim(Append(request_history, RequestRecord(hr))),
     db_requests |->
         IF pf = "save_request_raises" THEN db_requests
         ELSE Append(db_requests, RequestRecord(hr)),
     response_history |->
         CASE pf = "save_request_raises" -> response_history
           [] pf = "save_response_raises" ->
                Append(response_history, ResponseRecord(hr))
           [] OTHER -> Trim(Append(response_history, ResponseRecord(hr))),
     db_responses |->
         IF pf = "ok" THEN Append(db_responses, ResponseRecord(hr))
         ELSE db_responses,
     hr |-> IF pf = "ok"
            THEN [hr EXCEPT !.pc = "done", !.sent = hr.response]
            ELSE Fail(hr)]

\* task p goes on with invocation hr: when hr has its response it is
\* recorded and the handler returns, when hr raised the handler ends, and
\* the task is free again; else the task stays where hr is suspended
Settle(p, hr, pf) ==
    IF hr.pc = "respond"
    THEN /\ pf # "ok" => n_faults < MaxFaults
         /\ n_faults' = IF pf = "ok" THEN n_faults ELSE n_faults + 1
         /\ h' = [h EXCEPT ![p] = Idle]
         /\ last' = Recorded(hr, pf).hr
         /\ request_history' = Recorded(hr, pf).request_history
         /\ db_requests' = Recorded(hr, pf).db_requests
         /\ response_history' = Recorded(hr, pf).response_history
         /\ db_responses' = Recorded(hr, pf).db_responses
    ELSE IF hr.pc = "failed"
    THEN /\ h' = [h EXCEPT ![p] = Idle]
         /\ last' = hr
         /\ UNCHANGED <<n_faults, request_history, db_requests,
                        response_history, db_responses>>
    ELSE /\ h' = [h EXCEPT ![p] = hr]
         /\ UNCHANGED <<n_faults, last, request_history, db_requests,
                        response_history, db_responses>>

(***************************************************************************)
(* Admin operations on routes (app/api/admin.py, app/api/mock.py 375-391)  *)
(***************************************************************************)

\* admin.create_route lines 254-268
NewRoute(route_create) ==
    [enabled |-> TRUE,
     match_rule |-> route_create.match_rule,
     response |-> route_create.response,
     response_sequences |-> route_create.response_sequences,
     enable_sequence |-> route_create.enable_sequence,
     current_sequence_index |-> 0,
     validator |-> route_create.validator]

\* the cursor admin.update_route_endpoint gives the updated route
\* (line 347)
UpdatedCursor(existing_route, route_update) ==
    existing_route.current_sequence_index

\* admin.update_route_endpoint lines 339-353
UpdatedRoute(existing_route, route_update) ==
    [enabled |-> IF route_update.enabled # Nil
                 THEN Get(route_update.enabled)
                 ELSE existing_route.enabled,
     match_rule |-> existing_route.match_rule,
     response |-> existing_route.response,
     response_sequences |-> IF route_update.response_sequences # Nil
                            THEN Get(route_update.response_sequences)
                            ELSE existing_route.response_sequences,
     enable_sequence |-> IF route_update.enable_sequence # Nil
                         THEN Get(route_update.enable_sequence)
                         ELSE existing_route.enable_sequence,
     current_sequence_index |-> UpdatedCursor(existing_route, route_update),
     validator |-> existing_route.validator]

\* admin.reset_sequence_counter without line 392
ResetKept(route) == route

\* admin.reset_sequence_counter line 392
ResetRoute(route) == [route EXCEPT !.current_sequence_index = 0]

AdminFrame == UNCHANGED <<request_history, response_history, db_requests,
                          db_responses, proxy_enable, h, last, n_requests,
                          n_faults, probe, matched>>

\* POST /admin/routes: uuid4 gives an id no route has
create_route(route_id, route_create) ==
    /\ n_admin < MaxAdminOps
    /\ route_id \notin DOMAIN routes
    /\ routes' = Put(routes, route_id, NewRoute(route_create))
    /\ db_routes' = save_route(db_routes, route_id, NewRoute(route_create))
    /\ served' = Put(served, route_id, <<>>)
    /\ base' = Put(base, route_id, 0)
    /\ n_admin' = n_admin + 1
    /\ AdminFrame

\* PUT /admin/routes/{route_id}
update_route_endpoint(route_id, route_update) ==
    /\ n_admin < MaxAdminOps
    /\ route_id \in DOMAIN routes
    /\ LET updated_route == UpdatedRoute(routes[route_id], route_update)
       IN  /\ routes' = Put(routes, route_id, updated_route)
           /\ db_routes' = save_route(db_routes, route_id, updated_route)
           /\ base' = Put(base, route_id, updated_route.current_sequence_index)
    /\ served' = Put(served, route_id, <<>>)
    /\ n_admin' = n_admin + 1
    /\ AdminFrame

\* DELETE /admin/routes/{route_id}
delete_route(route_id) ==
    /\ n_admin < MaxAdminOps
    /\ route_id \in DOMAIN routes
    /\ routes' = Del(routes, route_id)
    /\ db_routes' = db_delete_route(db_routes, route_id)
    /\ served' = Del(served, route_id)
    /\ base' = Del(base, route_id)
    /\ n_admin' = n_admin + 1
    /\ AdminFrame

\* POST /admin/routes/{route_id}/reset-sequence
reset_sequence_counter(route_id) ==
    /\ n_admin < MaxAdminOps
    /\ route_id \in DOMAIN routes
    /\ routes' = Put(routes, route_id, ResetRoute(routes[route_id]))
    /\ db_routes' = save_route(db_routes, route_id, ResetRoute(routes[route_id]))
    /\ served' = Put(served, route_id, <<>>)
    /\ base' = Put(base, route_id, 0)
    /\ n_admin' = n_admin + 1
    /\ AdminFrame

(***************************************************************************)
(* The steps of a mock_handler invocation                                  *)
(***************************************************************************)

Draws == 0..(ProbScale - 1)

\* what the backend of the proxy answers; 502 is proxy_request's answer
\* to a transport error
BackendStatuses == {200, 502}

\* the handler without line 135: the advanced cursor is not saved
SaveSkipped(db, r) == db

\* line 135: the route whose cursor was advanced is saved
SaveAdvanced(db, r) ==
    IF r.advanced # NoId
    THEN save_route(db, r.advanced, r.rs[r.advanced])
    ELSE db

\* a request arrives and is handled, by the first free task, up to the
\* first suspension after the match, or to the end
mock_handler(p, q, draw, pf) ==
    /\ h[p].pc = "idle"
    /\ \A o \in Procs : o < p => h[o].pc # "idle"
    /\ n_requests < MaxRequests
    /\ LET r == Handle(routes, q, n_requests + 1, draw, proxy_enable)
           db == SaveAdvanced(db_routes, r)
       IN  /\ routes' = r.rs
           /\ db_routes' = db
           /\ served' = IF r.selected
                        THEN [served EXCEPT ![r.hr.route_id] =
                                  Append(@, [idx |-> r.idx,
                                             desc |-> Get(r.hr.desc)])]
                        ELSE served
           /\ Settle(p, [r.hr EXCEPT !.obs = Observed(routes, r.rs,
                                         db_routes, db, r.hr.route_id, q)],
                     pf)
    /\ n_requests' = n_requests + 1
    /\ UNCHANGED <<proxy_enable, n_admin, base, probe, matched>>

HandlerFrame == UNCHANGED <<routes, db_routes, proxy_enable, n_requests,
                            n_admin, served, base, probe, matched>>

\* asyncio.sleep of the delay is over (mock.py lines 191, 196)
after_delay(p, draw, pf) ==
    /\ h[p].pc = "delay"
    /\ Settle(p, PostDelay(h[p], draw), pf)
    /\ HandlerFrame

\* asyncio.sleep(30) of the simulated timeout is over (line 205)
after_timeout(p, pf) ==
    /\ h[p].pc = "timeout_sleep"
    /\ Settle(p, PostTimeout(h[p]), pf)
    /\ HandlerFrame

\* proxy_request returns (line 157)
proxy_returns(p, status, pf) ==
    /\ h[p].pc = "proxying"
    /\ Settle(p, Respond(h[p], Resp(status, "proxy", "")), pf)
    /\ HandlerFrame

(***************************************************************************)
(* Specification of the server                                             *)
(***************************************************************************)

Init ==
    /\ routes = EmptyStore
    /\ db_routes = EmptyStore
    /\ request_history = <<>>
    /\ response_history = <<>>
    /\ db_requests = <<>>
    /\ db_responses = <<>>
    /\ proxy_enable \in BOOLEAN
    /\ h = [p \in Procs |-> Idle]
    /\ last = Idle
    /\ n_requests = 0
    /\ n_admin = 0
    /\ n_faults = 0
    /\ served = EmptyStore
    /\ base = EmptyStore
    /\ probe = Nil
    /\ matched = Nil

\* the server while the persistence collaborator records every event
Next ==
    \/ \E id \in RouteIds, rc \in RouteCreates : create_route(id, rc)
    \/ \E id \in RouteIds, ru \in RouteUpdates : update_route_endpoint(id, ru)
    \/ \E id \in RouteIds : delete_route(id)
    \/ \E id \in RouteIds : reset_sequence_counter(id)
    \/ \E p \in Procs, q \in Requests, draw \in Draws :
           mock_handler(p, q, draw, "ok")
    \/ \E p \in Procs, draw \in Draws : after_delay(p, draw, "ok")
    \/ \E p \in Procs : after_timeout(p, "ok")
    \/ \E p \in Procs, status \in BackendStatuses :
           proxy_returns(p, status, "ok")

Spec == Init /\ [][Next]_vars

(***************************************************************************)
(* Specification of the mock endpoint with a persistence collaborator     *)
(* whose save_request and save_response may raise                          *)
(***************************************************************************)

\* the stores the admin API's create_route builds
CreatedStores ==
    UNION {[ids -> {NewRoute(rc) : rc \in RouteCreates}] :
              ids \in SUBSET RouteIds}

FaultInit ==
    /\ routes \in CreatedStores
    /\ db_routes = routes
    /\ request_history = <<>>
    /\ response_history = <<>>
    /\ db_requests = <<>>
    /\ db_responses = <<>>
    /\ proxy_enable \in BOOLEAN
    /\ h = [p \in Procs |-> Idle]
    /\ last = Idle
    /\ n_requests = 0
    /\ n_admin = 0
    /\ n_faults = 0
    /\ served = [id \in DOMAIN routes |-> <<>>]
    /\ base = [id \in DOMAIN routes |-> 0]
    /\ probe = Nil
    /\ matched = Nil

FaultNext ==
    \/ \E p \in Procs, q \in Requests, draw \in Draws, pf \in PersistOutcomes :
           mock_handler(p, q, draw, pf)
    \/ \E p \in Procs, draw \in Draws, pf \in PersistOutcomes :
           after_delay(p, draw, pf)
    \/ \E p \in Procs, pf \in PersistOutcomes : after_timeout(p, pf)
    \/ \E p \in Procs, status \in BackendStatuses, pf \in PersistOutcomes :
           proxy_returns(p, status, pf)

FaultSpec == FaultInit /\ [][FaultNext]_vars

(***************************************************************************)
(* Specification of the Router on its own: routes are added and removed,  *)
(* and match_route is called for a request                                 *)
(***************************************************************************)

MatchIds == RouteIds \cup {<<2>>}

PathUser42 == <<"/", "api", "/", "users", "/", "42">>
PathUsers  == <<"/", "api", "/", "users">>

\* the match rules of the routes the Router is given
MatchRules == {
    Rule(PathUser, <<"GET">>, EmptyDict, EmptyDict, EmptyDict, FALSE),
    Rule(PathUser42, <<"GET">>, EmptyDict, EmptyDict, EmptyDict, FALSE),
    Rule(PathAny, <<"GET", "POST">>, EmptyDict, EmptyDict, EmptyDict, FALSE),
    Rule(PathUser42, <<"GET">>, D1("x-env", One("prod")), EmptyDict,
         EmptyDict, FALSE),
    Rule(PathUser, <<"GET">>, EmptyDict,
         D1("v", AnyOf(<<"1", "2">>)), EmptyDict, FALSE),
    Rule(PathUser42, <<"POST">>, EmptyDict, EmptyDict,
         D1("name", JStr(<<"Ann">>)), FALSE),
    Rule(PathUsers, <<"GET">>, EmptyDict, EmptyDict, EmptyDict, TRUE) }

\* a Route with the given match rule
RouteOf(match_rule, enabled) ==
    [NewRoute([match_rule |-> match_rule, response |-> DescDefault,
               response_sequences |-> <<>>, enable_sequence |-> FALSE,
               validator |-> Nil])
     EXCEPT !.enabled = enabled]

\* the requests match_route is called for
Probes == {
    Inbound("GET", <<"users", "/", "42">>, NoHeaders, JNull),
    [Inbound("GET", <<"users", "/", "42">>, D1("x-env", "prod"), JNull)
        EXCEPT !.query_params = D1("v", "2")],
    [Inbound("GET", <<"users", "/", "7">>, D1("x-env", "test"), JNull)
        EXCEPT !.query_params = D1("v", "3")],
    Inbound("POST", <<"users", "/", "42">>, NoHeaders,
            JObj(D2("name", JStr(<<"Ann">>), "age", JNum(3)))),
    Inbound("POST", <<"users", "/", "42">>, NoHeaders,
            JArr(<<JStr(<<"Ann">>)>>)),
    Inbound("DELETE", <<"other">>, NoHeaders, JNull) }

RouterFrame == UNCHANGED <<db_routes, request_history, response_history,
                           db_requests, db_responses, proxy_enable, h, last,
                           n_requests, n_admin, n_faults, served, base>>

\* a store that keeps the route it has under an id
AddIfAbsent(route_id, route) ==
    /\ routes' = IF route_id \in DOMAIN routes THEN routes
                 ELSE Put(routes, route_id, route)
    /\ probe' = Nil
    /\ matched' = Nil
    /\ RouterFrame

\* Router.add_route, Router.update_route
add_route(route_id, route) ==
    /\ routes' = Put(routes, route_id, route)
    /\ probe' = Nil
    /\ matched' = Nil
    /\ RouterFrame

\* Router.remove_route
remove_route(route_id) ==
    /\ routes' = IF route_id \in DOMAIN routes THEN Del(routes, route_id)
                 ELSE routes
    /\ probe' = Nil
    /\ matched' = Nil
    /\ RouterFrame

\* a call of Router.match_route
call_match_route(q) ==
    /\ probe' = Some(q)
    /\ matched' = Some(match_route(routes, Incoming(q)))
    /\ UNCHANGED routes
    /\ RouterFrame

MatchNext ==
    \/ \E id \in MatchIds, rule \in MatchRules, enabled \in BOOLEAN :
           add_route(id, RouteOf(rule, enabled))
    \/ \E id \in MatchIds : remove_route(id)
    \/ \E q \in Probes : call_match_route(q)

\* the proxy plays no part in Router.match_route
MatchInit == Init /\ proxy_enable = FALSE

MatchSpec == MatchInit /\ [][MatchNext]_vars

(***************************************************************************)
(* Properties of the response sequence                                     *)
(***************************************************************************)

\* the routes whose sequence is consulted and whose cursor was 0 when the
\* log of their dispatches began
SequencedFromZero ==
    {id \in DOMAIN routes :
        /\ routes[id].enable_sequence
        /\ Len(routes[id].response_sequences) >= 1
        /\ base[id] = 0}

\* C1: on a route with enable_sequence true, N >= 1 responses in
\* response_sequences and cursor 0, the k-th request that is matched and
\* passes the route's validator is served the response at index
\* (k-1) mod N: the first N requests get indices 0..N-1 once each, in
\* order, and request N+1 gets index 0 again.
C1_CyclicOrder ==
    \A id \in SequencedFromZero :
        LET N == Len(routes[id].response_sequences)
        IN  \A k \in 1..Len(served[id]) :
               /\ served[id][k].idx = (k - 1) % N
               /\ served[id][k].desc =
                      routes[id].response_sequences[((k - 1) % N) + 1]

\* a route with two responses has served three requests: the third one
\* was served index 0 again
C1_Witness ==
    \E id \in SequencedFromZero :
        /\ Len(routes[id].response_sequences) = 2
        /\ Len(served[id]) = 3
        /\ served[id][3].idx = 0
        /\ served[id][2].idx = 1

\* the invocations that are in flight or have just ended
Invocations == {h[p] : p \in Procs} \cup {last}

\* C2: requests handled concurrently on one sequenced route of N responses
\* are dispatched consecutive indices modulo N, without duplicate or gap:
\* every dispatch reads the cursor and advances it in one step, so each
\* dispatch uses the index that follows the one of the dispatch before it,
\* whatever invocations are suspended meanwhile.
C2_ConsecutiveIndices ==
    /\ \A id \in DOMAIN routes :
          \A k \in 1..(Len(served[id]) - 1) :
              (served[id][k].idx >= 0 /\ served[id][k + 1].idx >= 0)
                  => served[id][k + 1].idx =
                         (served[id][k].idx + 1)
                             % Len(routes[id].response_sequences)
    /\ \A hr \in Invocations :
          hr.used = "sequence"
              => /\ hr.idx = hr.obs.cursor_before
                 /\ hr.obs.cursor_after =
                        (hr.obs.cursor_before + 1) % hr.obs.n_sequences
                 /\ hr.obs.db_cursor_after = hr.obs.cursor_after

\* while an invocation that was dispatched index 0 is suspended in its
\* delay, a later request on the same route was dispatched index 1
C2_Witness ==
    \E p \in Procs :
        /\ h[p].pc = "delay"
        /\ h[p].used = "sequence"
        /\ h[p].idx = 0
        /\ last.route_id = h[p].route_id
        /\ last.used = "sequence"
        /\ last.id > h[p].id
        /\ last.idx = 1
        /\ Len(served[last.route_id]) = 2

\* C3: a route whose response_sequences is non-empty has
\* 0 <= current_sequence_index < len(response_sequences), after any
\* create, update, reset-sequence and matched request.
C3_CursorInRange ==
    \A id \in DOMAIN routes :
        routes[id].response_sequences # <<>>
            => /\ 0 <= routes[id].current_sequence_index
               /\ routes[id].current_sequence_index
                      < Len(routes[id].response_sequences)

(***************************************************************************)
(* Properties of Router.match_route                                        *)
(***************************************************************************)

\* the request of the last call of match_route, as the Router is given it
Probed == Incoming(Get(probe))

\* the five predicates of match_route for route id and the probed request
PassesAllFive(id) ==
    LET rule == routes[id].match_rule
    IN  /\ \E i \in 1..Len(rule.methods) : rule.methods[i] = Probed.method
        /\ match_path(Probed.path, rule.path, rule.use_regex).ok
        /\ match_headers(Probed.headers, rule.headers)
        /\ match_query_params(Probed.query_params, rule.query_params)
        /\ match_body(Probed.body, rule.body)

\* the enabled routes that pass all five predicates
Candidates == {id \in DOMAIN routes : routes[id].enabled /\ PassesAllFive(id)}

Score(id) == route_specificity(routes[id].match_rule)

\* C4: among the enabled routes whose five predicates pass for the
\* request, match_route returns the one of highest specificity score and,
\* among those of that score, the one whose id is lexicographically
\* smallest.
C4_MostSpecificSmallestId ==
    (probe # Nil /\ Candidates # {})
        => /\ Get(matched).ok
           /\ Get(matched).id \in Candidates
           /\ \A other \in Candidates \ {Get(matched).id} :
                 \/ Score(Get(matched).id) > Score(other)
                 \/ /\ Score(Get(matched).id) = Score(other)
                    /\ StrLess(Get(matched).id, other)

\* three candidates, two of them with the top score and one below: the
\* call returned the top-scored one with the smaller id
C4_Witness ==
    /\ probe # Nil
    /\ Get(matched).ok
    /\ \E tied, lower \in Candidates :
          /\ tied # Get(matched).id
          /\ Score(tied) = Score(Get(matched).id)
          /\ routes[tied].match_rule # routes[Get(matched).id].match_rule
          /\ Score(lower) < Score(tied)

\* C5: match_route returns a route only if it is enabled and its method,
\* path, header, query and body predicates all pass for the request, and
\* it returns no match exactly when no enabled route passes all five.
C5_OnlyEnabledPassing ==
    probe # Nil
        => /\ Get(matched).ok
                => /\ Get(matched).id \in DOMAIN routes
                   /\ routes[Get(matched).id].enabled
                   /\ PassesAllFive(Get(matched).id)
           /\ ~Get(matched).ok <=> Candidates = {}

\* a disabled route that passes all five predicates outscores the enabled
\* route that was returned
C5_Witness ==
    /\ probe # Nil
    /\ Get(matched).ok
    /\ \E id \in DOMAIN routes :
          /\ ~routes[id].enabled
          /\ PassesAllFive(id)
          /\ Score(id) > Score(Get(matched).id)

(***************************************************************************)
(* Properties of the mock endpoint                                         *)
(***************************************************************************)

\* the invocations that have begun
Begun == {hr \in Invocations : hr.id > 0}

\* C6: a request no enabled route matches is answered 404 with the error
\* "No matching route found" when proxying is disabled, and a request is
\* forwarded to the backend only when no enabled route matches it.
C6_NotFoundOrProxy ==
    \A hr \in Begun :
        /\ (hr.obs.passing = {} /\ ~proxy_enable)
              => /\ hr.pc = "done"
                 /\ hr.used = "notfound"
                 /\ hr.route_id = NoId
                 /\ hr.sent = Some(Resp(404, "canned",
                                        "No matching route found"))
        /\ (hr.used = "proxy" \/ hr.pc = "proxying")
              => (hr.obs.passing = {} /\ proxy_enable)
        /\ hr.obs.passing # {}
              => (hr.route_id \in hr.obs.passing /\ hr.used # "notfound")

\* with proxying disabled, a request that a disabled route of the store
\* would pass was answered 404
C6_Witness ==
    /\ ~proxy_enable
    /\ last.pc = "done"
    /\ last.used = "notfound"
    /\ Get(last.sent).status_code = 404
    /\ \E id \in DOMAIN routes :
          ~routes[id].enabled /\ RoutePasses(routes[id], Get(last.req))

\* the invocations whose request matched a route with a validator and
\* failed its validation
FailedValidation ==
    {hr \in Begun : hr.route_id # NoId /\ hr.obs.has_validator
                    /\ ~hr.obs.valid}

\* C7: a matched request that fails the route's validator is answered from
\* validator.error_response when the validator has one and else with a
\* generic 400 that carries the validation message; the route's default
\* and sequence responses are not used and the route's cursor stays as it
\* was, in the store and as persisted.
C7_ValidationFailure ==
    \A hr \in FailedValidation :
        /\ hr.idx = -1
        /\ hr.obs.cursor_after = hr.obs.cursor_before
        /\ hr.obs.db_cursor_after = hr.obs.db_cursor_before
        /\ IF hr.obs.error_response # Nil
           THEN /\ hr.used = "error_response"
                /\ hr.desc = hr.obs.error_response
                /\ (hr.pc = "done" /\ ~Get(hr.desc).simulate_error)
                      => hr.sent = Some(Resp(Get(hr.desc).status_code,
                                             "content", ""))
           ELSE /\ hr.used = "generic400"
                /\ hr.desc = Nil
                /\ hr.pc = "done"
                /\ hr.sent = Some(Resp(400, "canned", hr.obs.msg))

\* a request was rejected with the validator's error response on a
\* sequenced route whose cursor stood at 1, and the cursor is still 1
C7_Witness ==
    /\ last \in FailedValidation
    /\ last.pc = "done"
    /\ last.used = "error_response"
    /\ last.obs.enable_sequence
    /\ last.obs.n_sequences = 2
    /\ last.obs.cursor_before = 1
    /\ last.route_id \in DOMAIN routes
    /\ routes[last.route_id].current_sequence_index = 1

\* the invocations whose request matched a route, passed its validator if
\* it has one, and found the sequence switched off or empty
WithoutSequence ==
    {hr \in Begun : /\ hr.route_id # NoId
                    /\ hr.obs.valid
                    /\ ~hr.obs.enable_sequence \/ hr.obs.n_sequences = 0}

\* C10: on a route with enable_sequence false, or with enable_sequence
\* true and no response_sequences, a matched request is served the
\* route's default response, and current_sequence_index is left as it
\* was, in the store and as persisted.
C10_DefaultWithoutSequence ==
    \A hr \in WithoutSequence :
        /\ hr.used = "default"
        /\ hr.idx = -1
        /\ hr.desc = hr.obs.default_response
        /\ hr.obs.cursor_after = hr.obs.cursor_before
        /\ hr.obs.db_cursor_after = hr.obs.db_cursor_before

\* a route with enable_sequence true whose response_sequences was emptied
\* when its cursor stood at 1 served its default response, and the cursor
\* is still 1
C10_Witness ==
    /\ last \in WithoutSequence
    /\ last.pc = "done"
    /\ last.obs.enable_sequence
    /\ last.obs.n_sequences = 0
    /\ last.obs.cursor_before = 1
    /\ last.route_id \in DOMAIN routes
    /\ routes[last.route_id].current_sequence_index = 1
    /\ db_routes[last.route_id].current_sequence_index = 1

(***************************************************************************)
(* Properties of the recording of events                                   *)
(***************************************************************************)

\* the records of log whose field f is id
RECURSIVE CountOf(_, _, _)
CountOf(log, f, id) ==
    IF log = <<>> THEN 0
    ELSE (IF Head(log)[f] = id THEN 1 ELSE 0) + CountOf(Tail(log), f, id)

\* the request events and the response events of invocation id, in the
\* histories and in the database
Events(id) ==
    <<CountOf(request_history, "id", id),
      CountOf(db_requests, "id", id),
      CountOf(response_history, "request_id", id),
      CountOf(db_responses, "request_id", id)>>

C9_ResponseSurvivesRecordingFailure ==
    (last.id > 0 /\ last.response # Nil) => last.sent = last.response

(***************************************************************************)
(* Properties of the admin reset of the sequence                           *)
(***************************************************************************)

\* a request was dispatched on route id in this step
Dispatched(id) ==
    /\ id \in DOMAIN served
    /\ id \in DOMAIN served'
    /\ Len(served'[id]) = Len(served[id]) + 1

\* C11: reset-sequence on an existing route sets that route's cursor to 0
\* whatever it was and changes no other route; and a route whose cursor
\* is 0 serves the next request that is matched and dispatched on it the
\* first response of its sequence.
C11_ResetToFirst ==
    [][/\ \A id \in RouteIds :
             reset_sequence_counter(id)
                 => /\ DOMAIN routes' = DOMAIN routes
                    /\ routes'[id].current_sequence_index = 0
                    /\ routes'[id] =
                           [routes[id] EXCEPT !.current_sequence_index = 0]
                    /\ \A other \in DOMAIN routes \ {id} :
                           routes'[other] = routes[other]
       /\ \A id \in DOMAIN routes :
             (/\ Dispatched(id)
              /\ routes[id].current_sequence_index = 0
              /\ routes[id].enable_sequence
              /\ Len(routes[id].response_sequences) >= 1)
                 => /\ served'[id][Len(served'[id])].idx = 0
                    /\ served'[id][Len(served'[id])].desc =
                           routes[id].response_sequences[1]]_vars

\* two requests in a row were dispatched index 0 of the two responses of
\* one route: the cursor, 1 after the first, was reset in between
C11_Witness ==
    \E p, q \in Procs :
        /\ h[p].id = 1
        /\ h[q].id = 2
        /\ h[p].route_id = h[q].route_id
        /\ h[p].used = "sequence" /\ h[q].used = "sequence"
        /\ h[p].idx = 0 /\ h[q].idx = 0
        /\ h[p].obs.n_sequences = 2 /\ h[q].obs.n_sequences = 2
        /\ h[p].obs.cursor_after = 1
        /\ h[q].obs.cursor_before = 0

(***************************************************************************)
(* Properties of the persisted cursor                                      *)
(***************************************************************************)

\* the invocations whose response is being generated or was generated
\* from a response of the sequence
Sequenced == {hr \in Begun : hr.used = "sequence"}

\* C12: on a sequenced match the advanced cursor is in the persisted
\* routes and in the route store before generate_response starts: an
\* invocation that is in or past response generation finds the persisted
\* cursor equal to the stored one and advanced past the index it was
\* dispatched, and at every suspension point every route's persisted
\* cursor is its stored cursor.
C12_CursorPersistedBeforeGeneration ==
    /\ \A hr \in Sequenced :
          /\ hr.obs.db_cursor_after = hr.obs.cursor_after
          /\ hr.obs.cursor_after = (hr.idx + 1) % hr.obs.n_sequences
          /\ hr.obs.db_cursor_before = hr.idx
    /\ DOMAIN db_routes = DOMAIN routes
    /\ \A id \in DOMAIN routes :
          db_routes[id].current_sequence_index =
              routes[id].current_sequence_index

\* an invocation is suspended in the delay of the response at index 0 and
\* the persisted and the stored cursor of its route are both 1
C12_Witness ==
    \E p \in Procs :
        /\ h[p].pc = "delay"
        /\ h[p] \in Sequenced
        /\ h[p].idx = 0
        /\ h[p].route_id \in DOMAIN routes
        /\ routes[h[p].route_id].current_sequence_index = 1
        /\ db_routes[h[p].route_id].current_sequence_index = 1

(***************************************************************************)
(* Specification of the mock endpoint with callers that disconnect while  *)
(* their handler is suspended                                              *)
(***************************************************************************)

\* the disconnect undoes the advance of the invocation's cursor
RolledBack(rs, hr) ==
    IF hr.used = "sequence" /\ hr.route_id \in DOMAIN rs
    THEN [rs EXCEPT ![hr.route_id].current_sequence_index =
              hr.obs.cursor_before]
    ELSE rs

\* the routes after the task of invocation hr was cancelled in its await
\* (mock.py 141, 157; 191, 196, 205): no handler of the exception, no
\* finally, nothing is written
AfterDisconnect(rs, hr) == rs

\* the caller of the invocation of task p disconnects and the task is
\* cancelled where it is suspended (the task that is left to run to its
\* end takes after_delay, after_timeout or proxy_returns)
disconnect(p) ==
    /\ h[p].pc \in {"delay", "timeout_sleep", "proxying"}
    /\ h' = [h EXCEPT ![p] = Idle]
    /\ last' = [h[p] EXCEPT !.pc = "cancelled"]
    /\ routes' = AfterDisconnect(routes, h[p])
    /\ db_routes' = AfterDisconnect(db_routes, h[p])
    /\ UNCHANGED <<request_history, response_history, db_requests,
                   db_responses, proxy_enable, n_requests, n_admin,
                   n_faults, served, base, probe, matched>>

CancelInit == FaultInit

CancelNext ==
    \/ \E p \in Procs, q \in Requests, draw \in Draws :
           mock_handler(p, q, draw, "ok")
    \/ \E p \in Procs, draw \in Draws : after_delay(p, draw, "ok")
    \/ \E p \in Procs : after_timeout(p, "ok")
    \/ \E p \in Procs, status \in BackendStatuses :
           proxy_returns(p, status, "ok")
    \/ \E p \in Procs : disconnect(p)

CancelSpec == CancelInit /\ [][CancelNext]_vars

\* the routes whose sequence is consulted
SequencedRoutes ==
    {id \in DOMAIN routes :
        /\ routes[id].enable_sequence
        /\ Len(routes[id].response_sequences) >= 1}

\* C13: when a caller disconnects while its handler is suspended in the
\* delay of response generation, the cursor of the route stays at the
\* advanced value: whatever invocations were abandoned, the cursor of a
\* sequenced route of N responses is the number of requests dispatched on
\* it modulo N, in range, in the store and as persisted, and the k-th
\* dispatch was served index (k-1) mod N.
C13_CursorSurvivesDisconnect ==
    \A id \in SequencedRoutes :
        LET N == Len(routes[id].response_sequences)
        IN  /\ routes[id].current_sequence_index = Len(served[id]) % N
            /\ db_routes[id].current_sequence_index = Len(served[id]) % N
            /\ \A k \in 1..Len(served[id]) : served[id][k].idx = (k - 1) % N

\* the first request was dispatched index 0 and abandoned in its delay
\* (it is not running and left no event); the second request on the same
\* route was served index 1
C13_Witness ==
    /\ n_requests = 2
    /\ \A p \in Procs : h[p].pc = "idle"
    /\ Events(1) = <<0, 0, 0, 0>>
    /\ last.id = 2
    /\ last.pc = "done"
    /\ last.used = "sequence"
    /\ last.idx = 1
    /\ Len(served[last.route_id]) = 2
    /\ served[last.route_id][1].idx = 0
    /\ served[last.route_id][1].desc.delay > 0
    /\ routes[last.route_id].current_sequence_index = 0

(***************************************************************************)
(* Specification of response generation: one route answers every request  *)
(* with a response descriptor that simulates an error, for request bodies  *)
(* of every JSON kind                                                      *)
(***************************************************************************)

ErrorTypes == {"timeout", "network_error", "server_error"}

\* error_probability 0, 1/ProbScale and 1.0
GenProbabilities == {0, 1, ProbScale}

GenContents == {MsgContent("hello"), JNum(1)}

\* the response descriptors of the route
GenDescriptors ==
    {Descriptor(200, 0, TRUE, etype, prob, content) :
        etype \in ErrorTypes, prob \in GenProbabilities,
        content \in GenContents}
    \cup {Descriptor(201, 1, TRUE, "server_error", prob, MsgContent("late")) :
             prob \in GenProbabilities}
    \cup {Descriptor(200, 0, FALSE, "", ProbScale, content) :
             content \in GenContents}

GenRouteId == <<1>>

\* the route that answers with descriptor desc
GenRoute(desc) ==
    NewRoute([match_rule |-> Rule(PathAny, <<"GET", "POST">>, EmptyDict,
                                  EmptyDict, EmptyDict, FALSE),
              response |-> desc, response_sequences |-> <<>>,
              enable_sequence |-> FALSE, validator |-> Nil])

\* requests without a body, with a JSON object, a JSON array and a JSON
\* string as body
GenRequests == {
    Inbound("GET", <<"seq">>, NoHeaders, JNull),
    Inbound("POST", <<"users", "/", "42">>, NoHeaders,
            JObj(D1("name", JStr(<<"Ann">>)))),
    Inbound("POST", <<"users", "/", "42">>, NoHeaders,
            JArr(<<JNum(1)>>)),
    Inbound("POST", <<"users", "/", "42">>, NoHeaders, JStr(<<"Ann">>)) }

GenInit ==
    /\ routes \in {[id \in {GenRouteId} |-> GenRoute(desc)] :
                      desc \in GenDescriptors}
    /\ db_routes = routes
    /\ request_history = <<>>
    /\ response_history = <<>>
    /\ db_requests = <<>>
    /\ db_responses = <<>>
    /\ proxy_enable = FALSE
    /\ h = [p \in Procs |-> Idle]
    /\ last = Idle
    /\ n_requests = 0
    /\ n_admin = 0
    /\ n_faults = 0
    /\ served = [id \in DOMAIN routes |-> <<>>]
    /\ base = [id \in DOMAIN routes |-> 0]
    /\ probe = Nil
    /\ matched = Nil

GenNext ==
    \/ \E p \in Procs, q \in GenRequests, draw \in Draws :
           mock_handler(p, q, draw, "ok")
    \/ \E p \in Procs, draw \in Draws : after_delay(p, draw, "ok")
    \/ \E p \in Procs : after_timeout(p, "ok")

GenSpec == GenInit /\ [][GenNext]_vars

\* the canned response of a simulated error (mock.py 206-228)
Canned(error_type) ==
    CASE error_type = "timeout" -> Resp(408, "canned", "Request Timeout")
      [] error_type = "network_error" ->
             Resp(503, "canned", "Service Unavailable")
      [] error_type = "server_error" ->
             Resp(500, "canned", "Internal Server Error")

\* the invocations that generate their response from a descriptor that
\* simulates one of the three errors with probability prob
Simulating(prob) ==
    {hr \in Begun : /\ hr.desc # Nil
                    /\ Get(hr.desc).simulate_error
                    /\ Get(hr.desc).error_type \in ErrorTypes
                    /\ Get(hr.desc).error_probability = prob}

\* C14: with simulate_error true and error_probability 1.0 every request
\* is answered with the canned response of the error_type (408 for
\* timeout, 503 Service Unavailable for network_error, 500 Internal Server
\* Error for server_error), and the content is not rendered: the
\* invocation never ends in an exception of the rendering, whatever its
\* body.
C14_CertainErrorIsCanned ==
    \A hr \in Simulating(ProbScale) :
        /\ hr.pc \in {"delay", "timeout_sleep", "done"}
        /\ hr.pc = "timeout_sleep" => Get(hr.desc).error_type = "timeout"
        /\ hr.pc = "done" => hr.sent = Some(Canned(Get(hr.desc).error_type))

\* a request whose body is a JSON array, on which the rendering of the
\* descriptor's string content raises, was answered the canned 500
C14_Witness ==
    /\ last \in Simulating(ProbScale)
    /\ last.pc = "done"
    /\ Get(last.desc).error_type = "server_error"
    /\ RenderRaises(Get(last.desc).content, Get(last.req).body)
    /\ Get(last.sent).status_code = 500
    /\ Get(last.sent).error = "Internal Server Error"

\* C15: with simulate_error true and error_probability 0 no request is
\* answered with the simulated error, whatever value in [0, 1) the random
\* draw takes: the invocation does not sleep the simulated timeout and is
\* not answered from the canned responses.
C15_ImpossibleErrorNeverFires ==
    \A hr \in Simulating(0) :
        /\ hr.pc # "timeout_sleep"
        /\ hr.response # Nil => Get(hr.response).src = "content"

(***************************************************************************)
(* Validator.validate_request on its own                                   *)
(***************************************************************************)

\* the bound of an interval or a lower bound
MinAge == 1
MaxAge == 3

\* required_fields of the validators called
RequiredLists == { <<>>, <<"name">>, <<"name", "age">> }

\* field_types of the validators called
TypeDicts == { EmptyDict, D1("age", "integer"),
               D2("name", "string", "age", "number") }

\* field_ranges of the validators called: none, an interval [min, max], a
\* lower bound [min], an enumerated list
RangeDicts == { [k \in {} |-> <<>>],
                D1("age", <<JNum(MinAge), JNum(MaxAge)>>),
                D1("age", <<JNum(MinAge + 1)>>),
                D1("name", <<JStr(<<"Ann">>), JStr(<<"Bob">>)>>) }

\* the token a route's validator holds as oauth_token
OAuthToken == <<"tok_oauth">>

\* the RouteValidator objects validate_request is called with: every
\* combination of the rules on the body with and without validate_jwt, and
\* a validator with validate_oauth and oauth_token only
CalledValidators ==
    { [ValidatorOf(req, jwt, Nil) EXCEPT !.field_types = ft,
                                         !.field_ranges = fr] :
        req \in RequiredLists, ft \in TypeDicts, fr \in RangeDicts,
        jwt \in BOOLEAN }
    \cup { [ValidatorOf(<<>>, FALSE, Nil)
               EXCEPT !.validate_oauth = TRUE, !.oauth_token = OAuthToken] }

\* the bodies validate_request is called with: None, the empty dict, dicts
\* with one or both fields, with values at, inside and outside the bounds
\* and of other types
CalledBodies ==
    { JNull, JObj(EmptyDict),
      JObj(D1("name", JStr(<<"Ann">>))),
      JObj(D1("age", JNum(MinAge + 1))),
      JObj(D1("other", JNum(MinAge))) }
    \cup { JObj(D2("name", JStr(<<"Ann">>), "age", JNum(n))) :
               n \in (MinAge - 1)..(MaxAge + 2) }
    \cup { JObj(D2("name", JStr(<<"Zed">>), "age", JNum(MaxAge))),
           JObj(D2("name", JNum(MinAge), "age", JStr(<<"Ann">>))),
           JObj(D2("name", JStr(<<"Bob">>), "age", JBool(TRUE))) }

\* the headers validate_request is called with
CalledHeaders ==
    { NoHeaders,
      D1("Authorization", <<"Bearer", " ", "tok_valid">>),
      D1("Authorization", <<"Bearer", " ", "tok_bad">>),
      D1("Authorization", <<"Bearer", " ">> \o OAuthToken) }

\* the calls of Validator.validate_request: its three arguments
ValidateCalls ==
    [validator : CalledValidators, body : CalledBodies,
     headers : CalledHeaders]

\* a call of Validator.validate_request on the arguments drawn
call_validate_request ==
    /\ probe # Nil
    /\ matched = Nil
    /\ matched' = Some(validate_request(Get(probe).validator,
                                        Get(probe).body,
                                        Get(probe).headers))
    /\ UNCHANGED <<routes, probe>>
    /\ RouterFrame

ValidateNext == call_validate_request

ValidateInit ==
    /\ routes = EmptyStore
    /\ db_routes = EmptyStore
    /\ request_history = <<>>
    /\ response_history = <<>>
    /\ db_requests = <<>>
    /\ db_responses = <<>>
    /\ proxy_enable = FALSE
    /\ h = [p \in Procs |-> Idle]
    /\ last = Idle
    /\ n_requests = 0
    /\ n_admin = 0
    /\ n_faults = 0
    /\ served = EmptyStore
    /\ base = EmptyStore
    /\ probe \in {Some(c) : c \in ValidateCalls}
    /\ matched = Nil

ValidateSpec == ValidateInit /\ [][ValidateNext]_vars

\* validate_request has been called and has returned or raised
Validated == probe # Nil /\ matched # Nil

\* the required fields a dict does not have, in the order of the list
Absent(required, body) ==
    SelectSeq(required, LAMBDA f : f \notin DOMAIN body.v)

\* C16: with required_fields non-empty, validate_request called with no
\* body (None), an empty body or a body that lacks a listed field returns
\* False with a message that lists the missing fields: every required
\* field when the body is None or empty, exactly the absent fields, in the
\* order of required_fields, otherwise; whatever the other rules of the
\* validator and the headers are.
C16_MissingRequiredFails ==
    Validated =>
        LET validator == Get(probe).validator
            body == Get(probe).body
            verdict == Get(matched)
            none == body.t = "null" \/ body = JObj(EmptyDict)
        IN  /\ (validator.required_fields # <<>> /\ none)
                => verdict = Invalid("body_empty_missing_required",
                                     validator.required_fields)
            /\ (validator.required_fields # <<>> /\ ~none
                    /\ Absent(validator.required_fields, body) # <<>>)
                => verdict = Invalid("missing_required",
                                 Absent(validator.required_fields, body))

\* two fields are required and the body has the first only: the message
\* lists the second only
C16_Witness ==
    /\ Validated
    /\ Get(probe).validator.required_fields = <<"name", "age">>
    /\ Get(probe).body = JObj(D1("name", JStr(<<"Ann">>)))
    /\ Get(matched) = Invalid("missing_required", <<"age">>)

\* a value is of the declared type
OfType(value, declared) ==
    CASE declared = "string"  -> value.t = "str"
      [] declared = "integer" -> value.t = "num"
      [] declared = "number"  -> value.t = "num"
      [] declared = "boolean" -> value.t = "bool"

\* a value is inside the declared range: between the two numbers of
\* [min, max], bounds included; at or above the number of [min]; one of the
\* values of an enumerated list
InsideRange(value, declared) ==
    IF Len(declared) = 2 /\ declared[1].t = "num" /\ declared[2].t = "num"
    THEN value.t = "num" /\ declared[1].v <= value.v
                         /\ value.v <= declared[2].v
    ELSE IF Len(declared) = 1 /\ declared[1].t = "num"
    THEN value.t = "num" /\ value.v >= declared[1].v
    ELSE \E i \in 1..Len(declared) : value = declared[i]

\* the body has every required field, and its fields are of the declared
\* types and inside the declared ranges
Conforms(validator, body) ==
    LET fields == IF body.t = "obj" THEN DOMAIN body.v ELSE {}
    IN  /\ \A i \in 1..Len(validator.required_fields) :
               validator.required_fields[i] \in fields
        /\ \A f \in fields \cap DOMAIN validator.field_types :
               OfType(body.v[f], validator.field_types[f])
        /\ \A f \in fields \cap DOMAIN validator.field_ranges :
               InsideRange(body.v[f], validator.field_ranges[f])

\* C17: a validator without JWT validation passes every body that has all
\* required_fields and whose present fields are of the declared type and
\* inside the declared range ([min, max] with both bounds included, an
\* enumerated list, [min] as a lower bound): validate_request returns
\* True and no message.
C17_ConformingBodyPasses ==
    Validated =>
        ((~Get(probe).validator.validate_jwt
              /\ Conforms(Get(probe).validator, Get(probe).body))
            => Get(matched) = Valid)

\* a body with both required fields, the age an integer on the upper bound
\* of the interval, passed
C17_Witness ==
    /\ Validated
    /\ ~Get(probe).validator.validate_jwt
    /\ Get(probe).validator.required_fields = <<"name", "age">>
    /\ Get(probe).validator.field_types = D1("age", "integer")
    /\ Get(probe).validator.field_ranges
           = D1("age", <<JNum(MinAge), JNum(MaxAge)>>)
    /\ Get(probe).body = JObj(D2("name", JStr(<<"Ann">>),
                                 "age", JNum(MaxAge)))
    /\ Get(matched) = Valid

(***************************************************************************)
(* Token validation through the mock endpoint                              *)
(***************************************************************************)

\* validators that check a token: a JWT, with and without an error
\* response, and an OAuth token
AuthValidators ==
    { ValidatorOf(<<>>, TRUE, Nil),
      ValidatorOf(<<>>, TRUE, Some(DescInvalid)),
      [ValidatorOf(<<>>, FALSE, Some(DescInvalid))
          EXCEPT !.validate_oauth = TRUE, !.oauth_token = OAuthToken] }

AuthRouteId == <<1>>

\* the route guarded by validator v that answers with descriptor desc
AuthRoute(v, desc) ==
    NewRoute([match_rule |-> Rule(PathAny, <<"GET", "POST">>, EmptyDict,
                                  EmptyDict, EmptyDict, FALSE),
              response |-> desc, response_sequences |-> <<>>,
              enable_sequence |-> FALSE, validator |-> Some(v)])

\* the headers a client sends: Host always, and Authorization with a
\* Bearer token that verifies, one that does not, the route's OAuth token,
\* a value of another scheme, or not at all
SentHeaders ==
    { D1("host", <<"mock">>) }
    \cup { D2("host", <<"mock">>, "Authorization", a) :
              a \in { <<"Bearer", " ", "tok_valid">>,
                      <<"Bearer", " ", "tok_bad">>,
                      <<"Bearer", " ">> \o OAuthToken,
                      <<"Basic", " ", "tok_valid">> } }

AuthRequests ==
    { Inbound("GET", <<"seq">>, hd, JNull) : hd \in SentHeaders }

AuthInit ==
    /\ routes \in {[id \in {AuthRouteId} |-> AuthRoute(v, desc)] :
                      v \in AuthValidators, desc \in {DescDefault, DescFirst}}
    /\ db_routes = routes
    /\ request_history = <<>>
    /\ response_history = <<>>
    /\ db_requests = <<>>
    /\ db_responses = <<>>
    /\ proxy_enable = FALSE
    /\ h = [p \in Procs |-> Idle]
    /\ last = Idle
    /\ n_requests = 0
    /\ n_admin = 0
    /\ n_faults = 0
    /\ served = [id \in DOMAIN routes |-> <<>>]
    /\ base = [id \in DOMAIN routes |-> 0]
    /\ probe = Nil
    /\ matched = Nil

AuthNext ==
    \/ \E p \in Procs, q \in AuthRequests, draw \in Draws :
           mock_handler(p, q, draw, "ok")
    \/ \E p \in Procs, draw \in Draws : after_delay(p, draw, "ok")

AuthSpec == AuthInit /\ [][AuthNext]_vars

\* the token of the header `name: Bearer <token>` of headers, Nil when
\* the header is absent or of another scheme
BearerIn(headers, name) ==
    IF name \in DOMAIN headers /\ StartsWith(headers[name], <<"Bearer", " ">>)
    THEN Some(SubSeq(headers[name], 3, Len(headers[name])))
    ELSE Nil

\* the bearer token of a request; headers is the request's headers as the
\* handler holds them, names in lower case
SentBearer(headers) == BearerIn(headers, Lower("Authorization"))

\* the invocations on the route whose validator has validate_jwt set
JwtGuarded ==
    {hr \in Begun : /\ hr.route_id # NoId
                    /\ routes[hr.route_id].validator # Nil
                    /\ Get(routes[hr.route_id].validator).validate_jwt}

\* C18: on a route whose validator has validate_jwt set, a request sent
\* through the mock endpoint with the header Authorization: Bearer <token>
\* passes validation and is answered from the route's response when the
\* token verifies against the signing key; a request without the header,
\* with a value of another scheme or with a token that does not verify
\* fails validation.
C18_BearerTokenDecides ==
    \A hr \in JwtGuarded :
        LET bearer == SentBearer(Get(hr.req).headers)
        IN  IF bearer # Nil /\ Get(bearer) \in ValidTokens
            THEN /\ hr.obs.valid
                 /\ hr.used = "default"
                 /\ hr.desc = Some(routes[hr.route_id].response)
            ELSE ~hr.obs.valid

\* C19: with a validator that has validate_oauth set and oauth_token T,
\* validate_request fails on empty headers, fails with the message of an
\* invalid OAuth token when the bearer token of the Authorization header
\* differs from T, and passes when it equals T.
C19_OAuthTokenDecides ==
    (Validated /\ Get(probe).validator.validate_oauth) =>
        LET T == Get(probe).validator.oauth_token
            headers == Get(probe).headers
            bearer == BearerIn(headers, "Authorization")
            verdict == Get(matched)
        IN  /\ headers = NoHeaders => (~verdict.ok /\ ~verdict.raised)
            /\ (bearer # Nil /\ Get(bearer) # T)
                  => verdict = Invalid("invalid_oauth_token", <<>>)
            /\ (bearer # Nil /\ Get(bearer) = T) => verdict = Valid

\* the invocations that generate their response from a descriptor
Generating == {hr \in Begun : hr.desc # Nil}

\* C20: rendering never raises, for any content template and any request
\* the mock handler can build a context from, a request without body or
\* with a JSON body that is no object included: no invocation that
\* generates its response from a descriptor ends in an unhandled exception.
C20_RenderingNeverRaises ==
    \A hr \in Generating : hr.pc # "failed" /\ hr.sent # Some(Unhandled)

(***************************************************************************)
(* Templater (app/services/templater.py)                                   *)
(*                                                                         *)
(* A template is a str: the symbols "{{", "}}" and "." are the characters  *)
(* the renderer inspects, " " is a blank, every other symbol is a word, a  *)
(* run of characters of [\w-].                                             *)
(***************************************************************************)

\* a symbol that stands for a run of word characters
IsWord(sym) == sym \notin {"{{", "}}", ".", " "}

\* sub in s
Contains(s, sub) ==
    \E i \in 1..(Len(s) - Len(sub) + 1) : SubSeq(s, i, i + Len(sub) - 1) = sub

\* s.replace(old, new): every occurrence, left to right, without overlap;
\* the text spliced in is not scanned again
RECURSIVE Replace(_, _, _)
Replace(s, old, new) ==
    IF Len(s) < Len(old) THEN s
    ELSE IF SubSeq(s, 1, Len(old)) = old
    THEN new \o Replace(SubSeq(s, Len(old) + 1, Len(s)), old, new)
    ELSE <<Head(s)>> \o Replace(Tail(s), old, new)

\* the position of the "}}" that closes a match of the pattern
\* \{\{(\w+\.(?:[\w-]+\.)*[\w-]+)\}\} opened by the "{{" at position i,
\* 0 when no match starts there
MatchEnd(s, i) ==
    LET ends == {j \in (i + 4)..Len(s) :
                    /\ s[i] = "{{"
                    /\ s[j] = "}}"
                    /\ (j - i) % 2 = 0
                    /\ \A k \in (i + 1)..(j - 1) :
                           IF (k - i) % 2 = 1 THEN IsWord(s[k])
                           ELSE s[k] = "."}
    IN  IF ends = {} THEN 0 ELSE CHOOSE j \in ends : TRUE

\* re.findall(pattern, s) from position i on: the captured groups, left
\* to right, without overlap
RECURSIVE FindAll(_, _)
FindAll(s, i) ==
    IF i > Len(s) THEN <<>>
    ELSE IF MatchEnd(s, i) = 0 THEN FindAll(s, i + 1)
    ELSE <<SubSeq(s, i + 1, MatchEnd(s, i) - 1)>>
         \o FindAll(s, MatchEnd(s, i) + 1)

\* str(value)
PyStr(value) ==
    CASE value.t = "str"  -> value.v
      [] value.t = "num"  -> <<ToString(value.v)>>
      [] value.t = "bool" -> IF value.v THEN <<"True">> ELSE <<"False">>
      [] value.t = "null" -> <<"None">>
      [] OTHER -> <<ToString(value.v)>>

\* lines 72-91: the walk along nested_keys from current, from key i on;
\* a key is looked up as it is, then without regard to case
RECURSIVE Walk(_, _, _)
Walk(current, nested_keys, i) ==
    IF i > Len(nested_keys) THEN Some(current)
    ELSE IF current.t # "obj" THEN Nil
    ELSE IF nested_keys[i] \in DOMAIN current.v
    THEN Walk(current.v[nested_keys[i]], nested_keys, i + 1)
    ELSE LET same == {k \in DOMAIN current.v :
                         Lower(k) = Lower(nested_keys[i])}
         IN  IF same = {} THEN Nil
             ELSE Walk(current.v[CHOOSE k \in same : TRUE], nested_keys,
                       i + 1)

\* the words of a captured group: match.split('.')
Parts(match) == [i \in 1..((Len(match) + 1) \div 2) |-> match[2 * i - 1]]

\* lines 57-94: one captured group is resolved in the context and its
\* placeholder replaced in result
Substitute(result, match, context) ==
    LET parts == Parts(match)
        placeholder == <<"{{">> \o match \o <<"}}">>
        found == IF parts[1] \in DOMAIN context.v
                 THEN Walk(context.v[parts[1]], Tail(parts), 1)
                 ELSE Nil
    IN  IF found = Nil THEN result
        ELSE Replace(result, placeholder, PyStr(Get(found)))

\* the loop `for match in matches` from match i on
RECURSIVE SubstituteAll(_, _, _, _)
SubstituteAll(result, matches, i, context) ==
    IF i > Len(matches) THEN result
    ELSE SubstituteAll(Substitute(result, matches[i], context), matches,
                       i + 1, context)

\* lines 98-116: the loop over the items of one of context['path'],
\* context['query'], context['body'], for the keys not handled yet
RECURSIVE ReplaceItems(_, _, _, _)
ReplaceItems(result, namespace, items, keys) ==
    IF keys = {} THEN result
    ELSE LET key == CHOOSE k \in keys : TRUE
         IN  ReplaceItems(
                 Replace(result, <<"{{", namespace, ".", key, "}}">>,
                         PyStr(items[key])),
                 namespace, items, keys \ {key})

\* one of the three passes: skipped when the namespace is not in the
\* context, raises when its value has no items()
ItemsPass(r, namespace, context) ==
    IF r.raised \/ namespace \notin DOMAIN context.v THEN r
    ELSE IF context.v[namespace].t # "obj" THEN [raised |-> TRUE, v |-> r.v]
    ELSE [raised |-> FALSE,
          v |-> ReplaceItems(r.v, namespace, context.v[namespace].v,
                             DOMAIN context.v[namespace].v)]

\* lines 118-133: the random data and the clock; env holds what random
\* and time return during the call
SimplePass(result, env) ==
    LET a == Replace(result, <<"{{", "random", ".", "int", "}}">>,
                     <<ToString(env.int)>>)
        b == Replace(a, <<"{{", "random", ".", "string", "}}">>,
                     <<env.string>>)
        c == Replace(b, <<"{{", "random", ".", "boolean", "}}">>,
                     IF env.boolean THEN <<"True">> ELSE <<"False">>)
        d == Replace(c, <<"{{", "timestamp", "}}">>,
                     <<ToString(env.timestamp)>>)
    IN  Replace(d, <<"{{", "now", "}}">>, <<env.now>>)

\* Templater._render_string: [raised, v]
render_string(template, context, env) ==
    LET nested == SubstituteAll(template, FindAll(template, 1), 1, context)
        items == ItemsPass(ItemsPass(ItemsPass(
                     [raised |-> FALSE, v |-> nested],
                     "path", context), "query", context), "body", context)
    IN  IF items.raised THEN items
        ELSE [raised |-> FALSE, v |-> SimplePass(items.v, env)]

\* Templater._render_value, Templater.render_response: the rendered
\* content; a leaf whose rendering raised is marked by the kind "raised"
RECURSIVE render_value(_, _, _)
render_value(value, context, env) ==
    CASE value.t = "str" ->
             IF render_string(value.v, context, env).raised
             THEN [t |-> "raised", v |-> 0]
             ELSE JStr(render_string(value.v, context, env).v)
      [] value.t = "obj" ->
             JObj([k \in DOMAIN value.v |->
                      render_value(value.v[k], context, env)])
      [] value.t = "arr" ->
             JArr([i \in 1..Len(value.v) |->
                      render_value(value.v[i], context, env)])
      [] OTHER -> value

\* the exception of a leaf leaves render_response
RECURSIVE HasRaised(_)
HasRaised(x) ==
    CASE x.t = "raised" -> TRUE
      [] x.t = "obj" -> \E k \in DOMAIN x.v : HasRaised(x.v[k])
      [] x.t = "arr" -> \E i \in 1..Len(x.v) : HasRaised(x.v[i])
      [] OTHER -> FALSE

render_response(content, context, env) ==
    LET rendered == render_value(content, context, env)
    IN  IF HasRaised(rendered) THEN [raised |-> TRUE, v |-> JNull]
        ELSE [raised |-> FALSE, v |-> rendered]

(***************************************************************************)
(* Templater.render_response on its own                                    *)
(***************************************************************************)

\* the placeholder {{namespace.key}}
Pl(namespace, key) == <<"{{", namespace, ".", key, "}}">>

\* response contents: the scenario of a body placeholder, the three
\* namespaces with one placeholder twice, plain data, an array with a
\* placeholder below it, placeholders nothing resolves, random data and
\* the clock, a nested key
RenderContents ==
    { JObj(D1("msg", JStr(<<"Hello", " ">> \o Pl("body", "name")))),
      JStr(Pl("path", "id") \o <<" ">> \o Pl("query", "v") \o <<" ">>
           \o Pl("body", "name") \o <<" ">> \o Pl("body", "name")),
      JObj(D2("msg", JStr(<<"hello">>),
              "list", JArr(<<JNum(1), JBool(TRUE), JNull,
                             JStr(<<"a", " ", "b">>)>>))),
      JArr(<<JNum(1), JObj(D1("q", JStr(Pl("query", "v")))), JNull>>),
      JStr(Pl("body", "missing") \o <<" ">> \o Pl("other", "x")),
      JStr(Pl("random", "int") \o <<" ", "{{", "timestamp", "}}">>),
      JStr(<<"{{", "body", ".", "user", ".", "name", "}}">>) }

\* path parameters and query parameters of a request
RenderPathParams == { EmptyDict, D1("id", JStr(<<"42">>)) }
RenderQueries == { EmptyDict, D1("v", JStr(<<"2">>)) }

\* request bodies: none, objects with plain values, with a value that
\* reads like a placeholder, with a number, with a nested object, and a
\* JSON array
RenderBodies ==
    { JNull,
      JObj(D1("name", JStr(<<"Ann">>))),
      JObj(D2("name", JStr(<<"Ann">>), "other", JStr(<<"x">>))),
      JObj(D2("name", JStr(Pl("body", "other")), "other", JStr(<<"x">>))),
      JObj(D1("name", JStr(Pl("random", "int")))),
      JObj(D1("name", JNum(3))),
      JObj(D1("user", JObj(D1("name", JStr(<<"Ann">>))))),
      JArr(<<JNum(1)>>) }

\* mock_handler lines 76-97: the context of a matched request
Context(path_params, query_params, body) ==
    JObj([ns \in {"request", "path", "query", "body"} |->
        CASE ns = "request" ->
                 JObj([f \in {"method", "path", "query_params", "body"} |->
                     CASE f = "method" -> JStr(<<"POST">>)
                       [] f = "path" -> JStr(<<"/", "api", "/", "users">>)
                       [] f = "query_params" -> JObj(query_params)
                       [] f = "body" -> body])
          [] ns = "path" -> JObj(path_params)
          [] ns = "query" -> JObj(query_params)
          [] ns = "body" -> IF Truthy(body) THEN body ELSE JObj(EmptyDict)])

\* what random and time return during one call
RenderEnvs ==
    { [int |-> 7, string |-> "aZ3", boolean |-> TRUE, timestamp |-> 100,
       now |-> "2024-01-01"],
      [int |-> 1000, string |-> "Qq1", boolean |-> FALSE, timestamp |-> 101,
       now |-> "2024-01-02"] }

\* the calls of render_response
RenderCalls ==
    { [content |-> content, context |-> Context(pp, qp, body), env |-> env] :
        content \in RenderContents, pp \in RenderPathParams,
        qp \in RenderQueries, body \in RenderBodies, env \in RenderEnvs }

\* a call of Templater.render_response on the arguments drawn
call_render_response ==
    /\ probe # Nil
    /\ matched = Nil
    /\ matched' = Some(render_response(Get(probe).content,
                                       Get(probe).context, Get(probe).env))
    /\ UNCHANGED <<routes, probe>>
    /\ RouterFrame

RenderNext == call_render_response

RenderInit ==
    /\ routes = EmptyStore
    /\ db_routes = EmptyStore
    /\ request_history = <<>>
    /\ response_history = <<>>
    /\ db_requests = <<>>
    /\ db_responses = <<>>
    /\ proxy_enable = FALSE
    /\ h = [p \in Procs |-> Idle]
    /\ last = Idle
    /\ n_requests = 0
    /\ n_admin = 0
    /\ n_faults = 0
    /\ served = EmptyStore
    /\ base = EmptyStore
    /\ probe \in {Some(c) : c \in RenderCalls}
    /\ matched = Nil

RenderSpec == RenderInit /\ [][RenderNext]_vars

\* render_response has been called and has returned or raised
Rendered == probe # Nil /\ matched # Nil

\* at position i of s stands a placeholder {{body.k}}, {{query.k}} or
\* {{path.k}} whose k is a key of that part of the context
KeyAt(s, i, context) ==
    /\ i + 4 <= Len(s)
    /\ s[i] = "{{" /\ s[i + 2] = "." /\ s[i + 4] = "}}"
    /\ s[i + 1] \in {"body", "query", "path"}
    /\ context.v[s[i + 1]].t = "obj"
    /\ s[i + 3] \in DOMAIN context.v[s[i + 1]].v

\* s from position i on with every such placeholder replaced by the
\* string form of its value, in one scan, the rest as it is
RECURSIVE Spliced(_, _, _)
Spliced(s, i, context) ==
    IF i > Len(s) THEN <<>>
    ELSE IF KeyAt(s, i, context)
    THEN PyStr(context.v[s[i + 1]].v[s[i + 3]]) \o Spliced(s, i + 5, context)
    ELSE <<s[i]>> \o Spliced(s, i + 1, context)

\* the content with every string leaf spliced
RECURSIVE SplicedContent(_, _)
SplicedContent(x, context) ==
    CASE x.t = "str" -> JStr(Spliced(x.v, 1, context))
      [] x.t = "obj" ->
             JObj([k \in DOMAIN x.v |-> SplicedContent(x.v[k], context)])
      [] x.t = "arr" ->
             JArr([i \in 1..Len(x.v) |-> SplicedContent(x.v[i], context)])
      [] OTHER -> x

\* every placeholder of the content's string leaves is one of a key the
\* context has
RECURSIVE Keyed(_, _)
Keyed(x, context) ==
    CASE x.t = "str" -> \A i \in 1..Len(x.v) :
                            x.v[i] = "{{" => KeyAt(x.v, i, context)
      [] x.t = "obj" -> \A k \in DOMAIN x.v : Keyed(x.v[k], context)
      [] x.t = "arr" -> \A i \in 1..Len(x.v) : Keyed(x.v[i], context)
      [] OTHER -> TRUE

\* C21: in a string leaf, every occurrence of a placeholder {{body.k}},
\* {{query.k}} or {{path.k}} whose k is a key of the request body object,
\* of the query parameters or of the path parameters is replaced by the
\* string form of the value of k, and the rest of the string is returned as
\* it is: content whose placeholders are all of that kind renders to the
\* content with each placeholder spliced.
C21_KeyPlaceholdersReplaced ==
    (Rendered /\ Keyed(Get(probe).content, Get(probe).context))
        => Get(matched) =
               [raised |-> FALSE,
                v |-> SplicedContent(Get(probe).content, Get(probe).context)]

\* no string leaf of the content has a placeholder
RECURSIVE NoPlaceholder(_)
NoPlaceholder(x) ==
    CASE x.t = "str" -> ~Contains(x.v, <<"{{">>)
      [] x.t = "obj" -> \A k \in DOMAIN x.v : NoPlaceholder(x.v[k])
      [] x.t = "arr" -> \A i \in 1..Len(x.v) : NoPlaceholder(x.v[i])
      [] OTHER -> TRUE

\* y has the nesting of x (the same keys, the same array lengths and
\* order) and the non-string leaves of x
RECURSIVE SameBut(_, _)
SameBut(x, y) ==
    /\ x.t = y.t
    /\ CASE x.t = "str" -> TRUE
         [] x.t = "obj" -> /\ DOMAIN x.v = DOMAIN y.v
                           /\ \A k \in DOMAIN x.v : SameBut(x.v[k], y.v[k])
         [] x.t = "arr" -> /\ Len(x.v) = Len(y.v)
                           /\ \A i \in 1..Len(x.v) : SameBut(x.v[i], y.v[i])
         [] OTHER -> x = y

\* C22: render_response returns content without placeholder unchanged, for
\* every context, and for any content it returns a value of the same
\* nesting (same object keys, same array lengths and order) whose
\* non-string leaves are those of the content; only string leaves differ.
C22_StructurePreserved ==
    Rendered =>
        /\ ~Get(matched).raised
        /\ SameBut(Get(probe).content, Get(matched).v)
        /\ NoPlaceholder(Get(probe).content)
              => Get(matched).v = Get(probe).content

\* the string form of every value a key placeholder of x resolves to
\* stands in y, the rendering of x
RECURSIVE Verbatim(_, _, _)
Verbatim(x, y, context) ==
    CASE x.t = "str" ->
             \A i \in 1..Len(x.v) :
                 KeyAt(x.v, i, context)
                     => Contains(y.v, PyStr(context.v[x.v[i + 1]].v[x.v[i + 3]]))
      [] x.t = "obj" -> \A k \in DOMAIN x.v : Verbatim(x.v[k], y.v[k], context)
      [] x.t = "arr" ->
             \A i \in 1..Len(x.v) : Verbatim(x.v[i], y.v[i], context)
      [] OTHER -> TRUE

\* C27: the text spliced in for a placeholder is not scanned and
\* substituted again by a later pass: the value of a request key that a
\* placeholder resolves to stands verbatim in the rendered string, also
\* when the value reads like a placeholder ({{random.int}},
\* {{body.other}}).
C27_SplicedTextNotRescanned ==
    (Rendered /\ ~Get(matched).raised)
        => Verbatim(Get(probe).content, Get(matched).v, Get(probe).context)

(***************************************************************************)
(* Router._match_path on its own                                           *)
(***************************************************************************)

\* the path made of the segments segs, with a leading slash
PathOf(segs) ==
    IF segs = <<>> THEN <<"/">>
    ELSE <<"/">> \o Head(segs) \o
         (IF Len(segs) = 1 THEN <<>>
          ELSE <<"/">> \o segs[2] \o
               (IF Len(segs) = 2 THEN <<>>
                ELSE <<"/">> \o segs[3] \o
                     (IF Len(segs) = 3 THEN <<>> ELSE <<"/">> \o segs[4])))

\* route paths: literal segments, one and two parameters, a trailing
\* slash, and wildcards at the end, in the middle and twice
RoutePaths ==
    { PathOf(segs) : segs \in
        { <<<<"api">>, <<"users">>>>,
          <<<<"api">>, <<"users">>, <<"{", "id", "}">>>>,
          <<<<"api">>, <<"{", "kind", "}">>, <<"{", "id", "}">>>>,
          <<<<"api">>, <<"users">>, <<"{", "id", "}">>, <<"posts">>>>,
          <<<<"api">>, <<"*">>>>,
          <<<<"api">>, <<"users">>, <<"*">>>>,
          <<<<"api">>, <<"{", "kind", "}">>, <<"*">>, <<"posts">>>>,
          <<<<"api">>, <<"*">>, <<"posts">>, <<"*">>>>,
          <<<<"*">>>> } }
    \cup { <<"/", "api", "/", "users", "/">> }

\* request paths of one to four segments, with another case and with a
\* trailing slash
RequestPaths ==
    { PathOf(segs) : segs \in
        { <<<<"api">>>>,
          <<<<"api">>, <<"users">>>>,
          <<<<"api">>, <<"Users">>>>,
          <<<<"api">>, <<"users">>, <<"42">>>>,
          <<<<"api">>, <<"Users">>, <<"42">>>>,
          <<<<"api">>, <<"users">>, <<"7">>>>,
          <<<<"api">>, <<"users">>, <<"42">>, <<"posts">>>>,
          <<<<"api">>, <<"users">>, <<"42">>, <<"files">>>>,
          <<<<"api">>, <<"orders">>, <<"42">>, <<"posts">>>>,
          <<<<"other">>, <<"users">>>> } }
    \cup { <<"/", "api", "/", "users", "/">>,
           <<"/", "api", "/", "users", "/", "42", "/">> }

\* the calls of _match_path without regular expression
PathCalls == [request_path : RequestPaths, route_path : RoutePaths]

\* a call of Router._match_path on the arguments drawn
call_match_path ==
    /\ probe # Nil
    /\ matched = Nil
    /\ matched' = Some(match_path(Get(probe).request_path,
                                  Get(probe).route_path, FALSE))
    /\ UNCHANGED <<routes, probe>>
    /\ RouterFrame

PathNext == call_match_path

PathInit ==
    /\ routes = EmptyStore
    /\ db_routes = EmptyStore
    /\ request_history = <<>>
    /\ response_history = <<>>
    /\ db_requests = <<>>
    /\ db_responses = <<>>
    /\ proxy_enable = FALSE
    /\ h = [p \in Procs |-> Idle]
    /\ last = Idle
    /\ n_requests = 0
    /\ n_admin = 0
    /\ n_faults = 0
    /\ served = EmptyStore
    /\ base = EmptyStore
    /\ probe \in {Some(c) : c \in PathCalls}
    /\ matched = Nil

PathSpec == PathInit /\ [][PathNext]_vars

\* _match_path has been called and has returned
PathMatched == probe # Nil /\ matched # Nil

\* the segments of a path
Segments(path) == Split(Strip(path, "/"), "/")

\* a segment {name}
IsParam(seg) == Len(seg) >= 2 /\ seg[1] = "{" /\ seg[Len(seg)] = "}"

\* the first n segments of the request fit those of the route: a literal
\* segment is equal, a {name} segment takes any
Fits(req, route, n) ==
    \A i \in 1..n : IsParam(route[i]) \/ route[i] = req[i]

\* the parameters the first n segments capture
Captured(req, route, n, params) ==
    /\ DOMAIN params = {SubSeq(route[i], 2, Len(route[i]) - 1) :
                           i \in {j \in 1..n : IsParam(route[j])}}
    /\ \A i \in 1..n :
           IsParam(route[i])
               => params[SubSeq(route[i], 2, Len(route[i]) - 1)] = req[i]

\* C23: for a route path without regular expression and without wildcard,
\* a request path matches exactly when it has as many segments as the
\* route path and every literal segment of the route equals the request's
\* segment at its position, case included; the path parameters returned
\* map the name of each {name} segment to the request's segment at its
\* position and hold nothing else.
C23_SegmentwiseMatch ==
    PathMatched =>
        LET req == Segments(Get(probe).request_path)
            route == Segments(Get(probe).route_path)
        IN  ~InList(<<"*">>, route)
            => /\ Get(matched).ok
                     <=> (Len(req) = Len(route) /\ Fits(req, route, Len(route)))
               /\ Get(matched).ok
                     => Captured(req, route, Len(route), Get(matched).params)

\* GET /api/users/42 on the route /api/users/{id} gave {id: "42"}
C23_Witness ==
    /\ PathMatched
    /\ Get(probe).request_path = <<"/", "api", "/", "users", "/", "42">>
    /\ Get(probe).route_path = <<"/", "api", "/", "users", "/", "{", "id", "}">>
    /\ Get(matched).ok
    /\ DOMAIN Get(matched).params = {<<"id">>}
    /\ Get(matched).params[<<"id">>] = <<"42">>

\* the segments of the route before its first wildcard: their number
Before(route) == ListIndex(route, <<"*">>)

\* C29: for a route path without regular expression whose first * segment
\* has k segments before it, a request path matches exactly when it has at
\* least k segments and its first k segments fit the route's first k
\* segments (equal literal, or {name} capture); the parameters are those of
\* the first k segments, so the request's later segments and the route's
\* segments after the wildcard change nothing.
C29_WildcardTruncates ==
    PathMatched =>
        LET req == Segments(Get(probe).request_path)
            route == Segments(Get(probe).route_path)
        IN  InList(<<"*">>, route)
            => /\ Get(matched).ok
                     <=> (Len(req) >= Before(route)
                          /\ Fits(req, route, Before(route)))
               /\ Get(matched).ok
                     => Captured(req, route, Before(route),
                                 Get(matched).params)

\* the request /api/users, of as many segments as the route /api/users/*
\* has before its wildcard, matched
C29_Witness ==
    /\ PathMatched
    /\ Get(probe).request_path = <<"/", "api", "/", "users">>
    /\ Get(probe).route_path = <<"/", "api", "/", "users", "/", "*">>
    /\ Get(matched).ok
    /\ Get(matched).params = <<>>

(***************************************************************************)
(* Properties of the route store                                           *)
(***************************************************************************)

\* Router.get_route
get_route(rs, route_id) ==
    IF route_id \in DOMAIN rs THEN Some(rs[route_id]) ELSE Nil

\* Router.get_all_routes: the routes of the store, each with its id
get_all_routes(rs) == {[id |-> id, route |-> rs[id]] : id \in DOMAIN rs}

\* the routes that are added to the store
MatchRoutes ==
    {RouteOf(rule, enabled) : rule \in MatchRules, enabled \in BOOLEAN}

\* C24: the route store is keyed by route id. After add_route(r) or
\* update_route(r), get_route(r.id) returns r, get_all_routes has exactly
\* one route of that id and the other routes are as before; after
\* remove_route(id), get_route(id) returns nothing, no request is matched
\* to that id and the other routes are as before; remove_route of an id
\* that is not stored leaves the store as it was.
C24_StoreKeyedById ==
    [][/\ \A id \in MatchIds, r \in MatchRoutes :
             add_route(id, r)
                 => /\ get_route(routes', id) = Some(r)
                    /\ Cardinality({x \in get_all_routes(routes') :
                                       x.id = id}) = 1
                    /\ \A o \in MatchIds \ {id} :
                           get_route(routes', o) = get_route(routes, o)
       /\ \A id \in MatchIds :
             remove_route(id)
                 => /\ get_route(routes', id) = Nil
                    /\ \A x \in get_all_routes(routes') : x.id # id
                    /\ \A q \in Probes :
                           LET m == match_route(routes', Incoming(q))
                           IN  m.ok => m.id # id
                    /\ \A o \in MatchIds \ {id} :
                           get_route(routes', o) = get_route(routes, o)
                    /\ id \notin DOMAIN routes => routes' = routes
      ]_vars

\* a single route is stored and takes a request that a route of another id
\* would take if it were in the store
C24_Witness ==
    /\ Cardinality(DOMAIN routes) = 1
    /\ probe # Nil
    /\ Get(matched).ok
    /\ \E id \in MatchIds \ DOMAIN routes, rule \in MatchRules :
           LET m == match_route(Put(routes, id, RouteOf(rule, TRUE)),
                                Incoming(Get(probe)))
           IN  m.ok /\ m.id = id

(***************************************************************************)
(* Properties of the sequence after an admin update                        *)
(***************************************************************************)

\* the invocations whose request matched a route with enable_sequence true
\* and a non-empty response_sequences, and passed its validator
OnSequencedRoute ==
    {hr \in Begun : /\ hr.route_id # NoId
                    /\ hr.obs.valid
                    /\ hr.obs.enable_sequence
                    /\ hr.obs.n_sequences >= 1}

\* C25: in every reachable state, also after an admin update that replaced
\* response_sequences by a shorter list, a matched and validated request on
\* a route with enable_sequence true and a non-empty response_sequences is
\* served the response at the cursor i and moves the cursor to
\* (i + 1) mod length; it is never served the default response and the
\* cursor never stays where it was.
C25_SequenceServedAfterUpdate ==
    \A hr \in OnSequencedRoute :
        /\ hr.used = "sequence"
        /\ hr.idx = hr.obs.cursor_before
        /\ hr.obs.cursor_after =
               (hr.obs.cursor_before + 1) % hr.obs.n_sequences

(***************************************************************************)
(* Properties of the recorded status code                                  *)
(***************************************************************************)

\* the status codes recorded for invocation id: response_status of its
\* request events and status_code of its response events, in the
\* histories and in the database
StatusesOf(id) ==
    {request_history[k].response_status :
        k \in {j \in 1..Len(request_history) : request_history[j].id = id}}
    \cup {db_requests[k].response_status :
        k \in {j \in 1..Len(db_requests) : db_requests[j].id = id}}
    \cup {response_history[k].status_code :
        k \in {j \in 1..Len(response_history) :
                  response_history[j].request_id = id}}
    \cup {db_responses[k].status_code :
        k \in {j \in 1..Len(db_responses) :
                  db_responses[j].request_id = id}}

\* C26: the status code of the recorded request event (response_status)
\* and of the recorded response event (status_code) is the status code of
\* the response returned to the caller, on every path, the validation
\* failure answered from a configured error_response included.
C26_RecordedStatusIsSentStatus ==
    (last.id > 0 /\ last.pc = "done" /\ last.sent # Nil)
        => StatusesOf(last.id) = {Get(last.sent).status_code}

(***************************************************************************)
(* Router._route_specificity as a function of the match rule               *)
(***************************************************************************)

\* the paths of the rules that are scored: with and without a leading and
\* a trailing '/', with a parameter, with a wildcard, the root
ScoredPaths == {
    <<"/", "api", "/", "users">>,
    <<"api", "/", "users">>,
    <<"/", "api", "/", "users", "/">>,
    <<"api", "/", "users", "/">>,
    <<"/", "api", "/", "users", "/", "{", "id", "}">>,
    <<"api", "/", "{", "id", "}", "/", "orders", "/", "{", "order", "}">>,
    <<"/", "api", "/", "*">>,
    <<"api", "/", "*", "/", "{", "id", "}">>,
    <<"/">>,
    <<"api">> }

\* the match rules that are scored
ScoredRules ==
    {Rule(path, methods, headers, query, body, FALSE) :
        path \in ScoredPaths,
        methods \in {<<"GET">>, <<"GET", "POST">>},
        headers \in {EmptyDict, D1("x-env", One("prod"))},
        query \in {EmptyDict,
                   D2("v", AnyOf(<<"1", "2">>), "page", One("1"))},
        body \in {EmptyDict, D1("name", JStr(<<"Ann">>))}}

\* a call of Router._route_specificity on the rule drawn
call_route_specificity ==
    /\ probe # Nil
    /\ matched = Nil
    /\ matched' = Some(route_specificity(Get(probe)))
    /\ UNCHANGED <<routes, probe>>
    /\ RouterFrame

ScoreNext == call_route_specificity

ScoreInit ==
    /\ routes = EmptyStore
    /\ db_routes = EmptyStore
    /\ request_history = <<>>
    /\ response_history = <<>>
    /\ db_requests = <<>>
    /\ db_responses = <<>>
    /\ proxy_enable = FALSE
    /\ h = [p \in Procs |-> Idle]
    /\ last = Idle
    /\ n_requests = 0
    /\ n_admin = 0
    /\ n_faults = 0
    /\ served = EmptyStore
    /\ base = EmptyStore
    /\ probe \in {Some(rule) : rule \in ScoredRules}
    /\ matched = Nil

ScoreSpec == ScoreInit /\ [][ScoreNext]_vars

\* the segments of a path: the non-empty parts between the '/'
SegmentsOf(path) ==
    LET parts == Split(path, "/")
    IN  {i \in 1..Len(parts) : parts[i] # <<>>}

\* the segments of a path that are a {param}
ParamSegments(path) ==
    LET parts == Split(path, "/")
    IN  {i \in SegmentsOf(path) :
            Head(parts[i]) = "{" /\ parts[i][Len(parts[i])] = "}"}

\* the segments of a path that are the wildcard
WildcardSegments(path) ==
    {i \in SegmentsOf(path) : Split(path, "/")[i] = <<"*">>}

\* the score of the formula, doubled
FormulaScore(rule) ==
    2 * Cardinality(SegmentsOf(rule.path))
    - 4 * Cardinality(ParamSegments(rule.path))
    - 6 * Cardinality(WildcardSegments(rule.path))
    - Len(rule.methods)
    + 4 * Cardinality(DOMAIN rule.headers)
    + 4 * Cardinality(DOMAIN rule.query_params)
    + (IF DOMAIN rule.body # {} THEN 10 ELSE 0)

\* C28: for every match rule the score of _route_specificity is
\* (path segments) - 2 * ({param} segments) - 3 * (wildcard segments)
\* - 0.5 * (allowed methods) + 2 * (header constraints)
\* + 2 * (query constraints) + 5 when there is a body constraint, the
\* segments being the non-empty parts of the path split on '/': two paths
\* that differ by a leading or trailing '/' have the same score.
C28_SpecificityFormula ==
    matched # Nil => Get(matched) = FormulaScore(Get(probe))

(***************************************************************************)
(* Specification of the histories at their limit: the server has handled  *)
(* about HistoryLimit requests, more arrive and the admin clears           *)
(***************************************************************************)

\* the events of n earlier requests that no route matched, oldest first
EarlierRequests(n) ==
    [k \in 1..n |-> [id |-> k - n - 1, matched_route_id |-> NoId,
                     response_status |-> 404]]

EarlierResponses(n) ==
    [k \in 1..n |-> [request_id |-> k - n - 1, status_code |-> 404]]

\* DELETE /admin/requests
clear_requests ==
    /\ n_admin < MaxAdminOps
    /\ request_history' = <<>>
    /\ response_history' = <<>>
    /\ db_requests' = <<>>
    /\ db_responses' = <<>>
    /\ n_admin' = n_admin + 1
    /\ UNCHANGED <<routes, db_routes, proxy_enable, h, last, n_requests,
                   n_faults, served, base, probe, matched>>

HistoryInit ==
    /\ routes = EmptyStore
    /\ db_routes = EmptyStore
    /\ \E n \in {HistoryLimit - 1, HistoryLimit} :
          /\ request_history = EarlierRequests(n)
          /\ response_history = EarlierResponses(n)
          /\ db_requests = EarlierRequests(n)
          /\ db_responses = EarlierResponses(n)
    /\ proxy_enable = FALSE
    /\ h = [p \in Procs |-> Idle]
    /\ last = Idle
    /\ n_requests = 0
    /\ n_admin = 0
    /\ n_faults = 0
    /\ served = EmptyStore
    /\ base = EmptyStore
    /\ probe = Nil
    /\ matched = Nil

HistoryNext ==
    \/ \E p \in Procs, q \in Requests, draw \in Draws, pf \in PersistOutcomes :
           mock_handler(p, q, draw, pf)
    \/ clear_requests

HistorySpec == HistoryInit /\ [][HistoryNext]_vars

\* the last n records of a log; db_requests and db_responses are the logs
\* of the events since the last clear
LastOf(log, n) ==
    IF Len(log) <= n THEN log ELSE SubSeq(log, Len(log) - n + 1, Len(log))

\* C30: after any sequence of handled requests and admin clears of the
\* history, request_history and response_history hold at most 1000
\* records each and have the same length, and a list over the limit loses
\* its oldest record: each holds the most recent records in the order of
\* their arrival.
C30_HistoriesBounded ==
    /\ Len(request_history) <= HistoryLimit
    /\ Len(response_history) <= HistoryLimit
    /\ Len(request_history) = Len(response_history)
    /\ \A k \in 1..Len(request_history) :
          response_history[k].request_id = request_history[k].id
    /\ request_history = LastOf(db_requests, HistoryLimit)
    /\ response_history = LastOf(db_responses, HistoryLimit)

====
